---- MODULE Spec2Model ----
(***************************************************************************)
(* Batch graph rewiring of get_data_sample.py: the inline                  *)
(* "single super node" block (lines 108-336), which collapses the          *)
(* sub-surface (tag 0) atoms of every graph of a batch into one super node *)
(* per graph.                                                              *)
(*                                                                         *)
(* Node indices are the 0-based indices of the code; a tensor is a         *)
(* sequence, so that node k of a tensor t is its element k + 1             *)
(* (operator At).  A 3-vector of floats is a record                        *)
(* [n |-> <<x, y, z>>, d |-> k] standing for the vector n / k; d = 0 is    *)
(* NaN (what torch's mean gives for an empty selection).                   *)
(***************************************************************************)
EXTENDS Integers, Sequences, FiniteSets, TLC

\* ------------------------------------------------------------------ bounds

\* most nodes and edges of a batch: 2 * nodes + edges <= MaxSize
MaxSize == 8

\* --------------------------------------------------------- program constants

\* atomic number given to a super node (tensor([84]))
SuperNodeAtomicNumber == 84

\* the entry of assoc for an index that has no new index (torch.full(.., -1))
Removed == 0 - 1

\* ------------------------------------------------------------ tensor helpers

\* element j of a sequence, j from 1 (taken with the operators of Sequences,
\* so that TLC evaluates t once)
Nth(t, j) == Head(SubSeq(t, j, j))

\* t[k] of the code for an index k >= 0
At(t, k) == Nth(t, k + 1)

\* t[k] of Python for one integer index: a negative k counts from the end
PyInRange(t, k) == k < Len(t) /\ k >= 0 - Len(t)
PyAt(t, k) == IF k < 0 THEN Nth(t, Len(t) + k + 1) ELSE Nth(t, k + 1)

RECURSIVE SumSeq(_)
SumSeq(s) == IF s = <<>> THEN 0 ELSE Head(s) + SumSeq(Tail(s))

\* torch.cat of a list of 1-d tensors
RECURSIVE Cat(_)
Cat(ss) == IF ss = <<>> THEN <<>> ELSE Head(ss) \o Cat(Tail(ss))

\* t[mask] for a boolean mask of the length of t
RECURSIVE MaskSelect(_, _)
MaskSelect(t, mask) ==
    IF t = <<>> THEN <<>>
    ELSE (IF Head(mask) THEN <<Head(t)>> ELSE <<>>)
             \o MaskSelect(Tail(t), Tail(mask))

\* t[idx] for a tensor idx of indices (all >= 0) into t
RECURSIVE Gather(_, _)
Gather(t, idx) ==
    IF idx = <<>> THEN <<>> ELSE <<At(t, Head(idx))>> \o Gather(t, Tail(idx))

\* t[idx] of Python for a tensor idx of indices, negative ones from the end
RECURSIVE PyGather(_, _)
PyGather(t, idx) ==
    IF idx = <<>> THEN <<>> ELSE <<PyAt(t, Head(idx))>> \o PyGather(t, Tail(idx))

\* torch.where(cond)[0]: the indices k, increasing, at which cond holds
RECURSIVE WhereFrom(_, _)
WhereFrom(cond, k) ==
    IF cond = <<>> THEN <<>>
    ELSE (IF Head(cond) THEN <<k>> ELSE <<>>) \o WhereFrom(Tail(cond), k + 1)
Where(cond) == WhereFrom(cond, 0)

\* torch.isin(elements, test): one boolean per element
RECURSIVE IsIn(_, _)
IsIn(elements, test) ==
    IF elements = <<>> THEN <<>>
    ELSE <<\E m \in 1..Len(test) : Nth(test, m) = Head(elements)>>
             \o IsIn(Tail(elements), test)

\* torch.arange(lo, hi)
Arange(lo, hi) == [j \in 1..(IF hi > lo THEN hi - lo ELSE 0) |-> lo + j - 1]

\* the number of True entries of a mask
RECURSIVE Count(_)
Count(mask) ==
    IF mask = <<>> THEN 0 ELSE (IF Head(mask) THEN 1 ELSE 0) + Count(Tail(mask))

\* ------------------------------------------------------------------ vectors

RECURSIVE Gcd(_, _)
Gcd(x, y) == IF y = 0 THEN x ELSE Gcd(y, x % y)
Abs(x) == IF x < 0 THEN 0 - x ELSE x

NaN == [n |-> <<0, 0, 0>>, d |-> 0]
IsNaN(v) == v.d = 0

\* the vector <<x, y, z>> / d in lowest terms
Fraction(x, y, z, d) ==
    IF d = 0 THEN NaN
    ELSE LET g == Gcd(Gcd(Gcd(Abs(x), Abs(y)), Abs(z)), d)
         IN  [n |-> <<x \div g, y \div g, z \div g>>, d |-> d \div g]

\* the sum of coordinate c of input vectors (all of denominator 1)
RECURSIVE CoordSum(_, _)
CoordSum(vs, c) ==
    IF vs = <<>> THEN 0 ELSE Nth(Head(vs).n, c) + CoordSum(Tail(vs), c)

\* Mean without the division: the sum of the rows
MeanNoDivide(vs) ==
    IF vs = <<>> THEN NaN
    ELSE Fraction(CoordSum(vs, 1), CoordSum(vs, 2), CoordSum(vs, 3), 1)

\* t.mean(0) of a tensor of input vectors: NaN when there is none
Mean(vs) == Fraction(CoordSum(vs, 1), CoordSum(vs, 2), CoordSum(vs, 3), Len(vs))

\* ((p - q) ** 2).sum(-1): the square of the distance the code takes the
\* root of, as a fraction [n, d]; d = 0 is NaN
SqDist(p, q) ==
    LET pn == p.n
        qn == q.n
        pd == p.d
        qd == q.d
        c1 == Nth(pn, 1) * qd - Nth(qn, 1) * pd
        c2 == Nth(pn, 2) * qd - Nth(qn, 2) * pd
        c3 == Nth(pn, 3) * qd - Nth(qn, 3) * pd
        num == c1 * c1 + c2 * c2 + c3 * c3
        den == (pd * qd) * (pd * qd)
        g == Gcd(num, den)
    IN  IF pd = 0 \/ qd = 0 THEN [n |-> 0, d |-> 0]
        ELSE [n |-> num \div g, d |-> den \div g]

\* --------------------------------------------------------------- the input

(***************************************************************************)
(* The batch b the script takes from the loader (lines 110-112): graphs    *)
(* packed one after the other, the edges of a graph between nodes of that  *)
(* graph, the edge columns of graph 0 first, then those of graph 1, ...    *)
(* An atom is one of a few kinds; the atom of index k sits k lattice steps *)
(* along x from its kind's position, so that no two atoms coincide.  The   *)
(* adsorbate atoms (tag 2) of a graph come after its slab atoms, as        *)
(* combined.py builds a structure (adslab = surface_c + adsorbate_c).      *)
(***************************************************************************)
AtomKinds ==
    { [tags |-> 0, atomic_numbers |-> 29, fixed |-> 1,
       pos |-> <<0, 0, 0>>, pos_relaxed |-> <<0, 0, 0>>, force |-> <<1, 0, 0>>],
      [tags |-> 0, atomic_numbers |-> 78, fixed |-> 1,
       pos |-> <<0, 2, 0>>, pos_relaxed |-> <<0, 2, 0>>, force |-> <<0, 2, 0>>],
      [tags |-> 1, atomic_numbers |-> 29, fixed |-> 0,
       pos |-> <<0, 1, 2>>, pos_relaxed |-> <<0, 1, 3>>, force |-> <<0, 0, 1>>],
      [tags |-> 2, atomic_numbers |-> 8, fixed |-> 0,
       pos |-> <<0, 1, 4>>, pos_relaxed |-> <<0, 2, 3>>, force |-> <<0, 1, 0 - 1>>] }

Vec(p, k) == [n |-> <<p[1] + k, p[2], p[3]>>, d |-> 1]

\* the periodic offset of an input edge: it tells the edges a -> b, b -> a
\* and a -> a (an atom and its own image) apart
OffsetOf(src, tgt) ==
    IF src = tgt THEN <<0, 1, 0>>
    ELSE IF src < tgt THEN <<0, 0, 0>> ELSE <<1, 0, 0>>

\* the ptr of graphs of the given sizes
RECURSIVE PtrOf(_)
PtrOf(sizes) ==
    IF sizes = <<>> THEN <<0>>
    ELSE LET r == PtrOf(SubSeq(sizes, 1, Len(sizes) - 1))
         IN  Append(r, r[Len(r)] + sizes[Len(sizes)])

\* the graph (0-based) that owns node k under ptr
GraphOf(ptr, k) == CHOOSE i \in 0..(Len(ptr) - 2) : ptr[i + 1] <= k /\ k < ptr[i + 2]

\* the sizes of the graphs of a batch: each graph has a node
SizesSet ==
    UNION { { sz \in [1..g -> 1..(MaxSize \div 2)] : 2 * SumSeq(sz) <= MaxSize }
            : g \in 1..(MaxSize \div 2) }

\* the atoms of a batch of this ptr: in every graph the adsorbate atoms last
KindsSet(ptr) ==
    LET n == ptr[Len(ptr)]
    IN  { kinds \in [1..n -> AtomKinds] :
            \A k \in 1..(n - 1) :
                (kinds[k].tags = 2 /\ GraphOf(ptr, k - 1) = GraphOf(ptr, k))
                    => kinds[k + 1].tags = 2 }

\* the edges a batch of this ptr can hold: both ends in one graph
EdgeChoices(ptr) ==
    LET n == ptr[Len(ptr)]
    IN  { e \in [src : 0..(n - 1), tgt : 0..(n - 1)] :
              GraphOf(ptr, e.src) = GraphOf(ptr, e.tgt) }

EdgeLists(ptr) ==
    LET choices == EdgeChoices(ptr)
    IN  UNION { { es \in [1..m -> choices] :
                    \A j \in 1..(m - 1) :
                        GraphOf(ptr, es[j].src) <= GraphOf(ptr, es[j + 1].src) }
                : m \in 0..(MaxSize - 2 * ptr[Len(ptr)]) }

MakeBatch(sizes, kinds, es) ==
    LET ptr == PtrOf(sizes)
        n == ptr[Len(ptr)]
    IN  [ ptr |-> ptr,
          natoms |-> sizes,
          batch |-> [k \in 1..n |-> GraphOf(ptr, k - 1)],
          tags |-> [k \in 1..n |-> kinds[k].tags],
          atomic_numbers |-> [k \in 1..n |-> kinds[k].atomic_numbers],
          fixed |-> [k \in 1..n |-> kinds[k].fixed],
          pos |-> [k \in 1..n |-> Vec(kinds[k].pos, k - 1)],
          pos_relaxed |-> [k \in 1..n |-> Vec(kinds[k].pos_relaxed, k - 1)],
          force |-> [k \in 1..n |-> Vec(kinds[k].force, 0)],
          edge_index |-> << [j \in 1..Len(es) |-> es[j].src],
                            [j \in 1..Len(es) |-> es[j].tgt] >>,
          cell_offsets |-> [j \in 1..Len(es) |-> OffsetOf(es[j].src, es[j].tgt)],
          neighbors |-> [g \in 1..Len(sizes) |->
                            Cardinality({ j \in 1..Len(es) :
                                            GraphOf(ptr, es[j].src) = g - 1 })] ]

(***************************************************************************)
(* The batch of the specification's scenario: graph 0 has 5 atoms of tags  *)
(* 0 0 1 1 2 and the edge (0, 2), graph 1 has 3 atoms of tags 0 1 2 and    *)
(* the edge (0, 1), which is (5, 6) in the packed batch.                   *)
(***************************************************************************)
ScenarioSizes == <<5, 3>>
ScenarioTags == <<0, 0, 1, 1, 2, 0, 1, 2>>
ScenarioEdges == << [src |-> 0, tgt |-> 2], [src |-> 5, tgt |-> 6] >>
ScenarioKinds ==
    { kinds \in [1..Len(ScenarioTags) -> AtomKinds] :
        \A k \in 1..Len(ScenarioTags) : kinds[k].tags = ScenarioTags[k] }
IsScenario(bb) ==
    /\ bb.ptr = PtrOf(ScenarioSizes)
    /\ bb.tags = ScenarioTags
    /\ bb.edge_index = << <<0, 5>>, <<2, 6>> >>

\* ------------------------------------------------------------------- state

VARIABLES
    b,                 \* the input batch (line 112)
    data,              \* the output, begun as deepcopy(b) (line 121)
    sub_nodes,         \* per graph, the indices of its tag 0 nodes
    non_sub_nodes,     \* per graph, the indices of its other nodes
    not_both_are_sub,  \* per graph, per edge of the graph: the edge is kept
    ei_not_both,       \* the kept columns of b.edge_index
    assoc,             \* old node index -> new node index, or -1
    pc,                \* where the block stands
    supernodes_composition,  \* per graph, per atom type, its tag 0 nodes
    sn_idxes,                \* per graph, the index given to each super node
    supernodes_pos,          \* the position of each super node (line 397)
    clean_new_edge_index,    \* per graph, the edges substituted and cleaned
    concat_reindexed_clean_edge_index,  \* the edges of the several block
    distance,                \* their distances (line 444)
    previous,          \* the outputs of the runs before, when the block is run again
    self,              \* the Combined / CombinedRandomly object under construction
    random_sites,      \* combined.py line 397: the sites generated
    adsorbed_surfaces, \* combined.py lines 114 and 398: the placements made
    reasonable_adsorbed_surfaces,  \* combined.py lines 120 and 405: those accepted
    trainer,           \* the EnergyTrainer: the attributes of its self
    frame,             \* the locals of the method of the trainer that runs
    calls,             \* the calls the trainer has made, in order
    spinner,           \* ocdata/loader.py: the attributes of the Loader
    stdout             \* what the Loader has printed, in order

\* the variables of the several super node block alone
several_vars ==
    <<supernodes_composition, sn_idxes, supernodes_pos, clean_new_edge_index,
      concat_reindexed_clean_edge_index, distance>>

\* the variables of combined.py alone
combined_vars ==
    <<self, random_sites, adsorbed_surfaces, reasonable_adsorbed_surfaces>>

\* the variables of energy_trainer.py alone
trainer_vars == <<trainer, frame, calls>>

\* the variables of ocdata/loader.py alone
loader_vars == <<spinner, stdout>>

\* the variables of the trainer and of the Loader
other_vars == <<trainer_vars, loader_vars>>

vars ==
    <<b, data, sub_nodes, non_sub_nodes, not_both_are_sub, ei_not_both, assoc, pc,
      several_vars, previous, combined_vars, other_vars>>

\* batch_size = max(b.batch).item() + 1 (line 127)
RECURSIVE MaxOf(_)
MaxOf(t) ==
    IF Len(t) = 1 THEN Head(t)
    ELSE LET m == MaxOf(Tail(t)) IN IF Head(t) > m THEN Head(t) ELSE m
BatchSize(bb) == MaxOf(bb.batch) + 1

\* --------------------------------- lines 127-220: partition, node tensors

\* where((b.tags == 0) * (b.batch == i))[0] for i in range(batch_size)
SubNodes(bb) ==
    [i \in 1..BatchSize(bb) |->
        Where([k \in 1..Len(bb.tags) |-> bb.tags[k] = 0 /\ bb.batch[k] = i - 1])]

\* NonSubNodes with the test tags == 1: the surface atoms only
NonSubNodesSurface(bb) ==
    [i \in 1..BatchSize(bb) |->
        Where([k \in 1..Len(bb.tags) |-> bb.tags[k] = 1 /\ bb.batch[k] = i - 1])]

\* where((b.tags != 0) * (b.batch == i))[0] for i in range(batch_size)
NonSubNodes(bb) ==
    [i \in 1..BatchSize(bb) |->
        Where([k \in 1..Len(bb.tags) |-> bb.tags[k] # 0 /\ bb.batch[k] = i - 1])]

\* NewSnIds without the + i that makes room for the super nodes of the
\* graphs before
NewSnIdsNoRoom(nsn) ==
    [i \in 1..Len(nsn) |-> SumSeq([m \in 1..i |-> Len(Nth(nsn, m))])]

\* index of the super node of each graph: last of its graph
NewSnIds(nsn) ==
    [i \in 1..Len(nsn) |->
        SumSeq([m \in 1..i |-> Len(Nth(nsn, m))]) + (i - 1)]

\* tensor([0] + [nsi + 1 for nsi in new_sn_ids])
NewPtr(nsn) ==
    LET new_sn_ids == NewSnIds(nsn)
    IN  <<0>> \o [i \in 1..Len(new_sn_ids) |-> Nth(new_sn_ids, i) + 1]

\* ptr[1:] - ptr[:-1]
Diff(ptr) == [i \in 1..(Len(ptr) - 1) |-> Nth(ptr, i + 1) - Nth(ptr, i)]

\* WithSuperNodes with the super node of a graph put before its other atoms
WithSuperNodesFirst(t, nsn, sn) ==
    Cat([i \in 1..Len(nsn) |-> <<Nth(sn, i)>> \o Gather(t, Nth(nsn, i))])

\* cat([cat([t[non_sub_nodes[i]], sn[i]]) for i in range(batch_size)])
WithSuperNodes(t, nsn, sn) ==
    Cat([i \in 1..Len(nsn) |-> Append(Gather(t, Nth(nsn, i)), Nth(sn, i))])

\* [t[sub_nodes[i]].mean(0) for i in range(batch_size)]
SnMean(t, sub) == [i \in 1..Len(sub) |-> Mean(Gather(t, Nth(sub, i)))]

\* ReduceNodes had line 121 been data = b: the new ptr and natoms land on the
\* input batch
ReduceNodesOnInput ==
    /\ pc = "start"
    /\ LET nsn == NonSubNodes(b)
           ptr == NewPtr(nsn)
       IN  /\ sub_nodes' = SubNodes(b)
           /\ non_sub_nodes' = nsn
           /\ data' = [ data EXCEPT !.ptr = ptr, !.natoms = Diff(ptr) ]
           /\ b' = [ b EXCEPT !.ptr = ptr, !.natoms = Diff(ptr) ]
    /\ pc' = "nodes"
    /\ UNCHANGED <<not_both_are_sub, ei_not_both, assoc, several_vars, previous, combined_vars, other_vars>>

ReduceNodes ==
    /\ pc = "start"
    /\ LET bs == BatchSize(b)
           sub == SubNodes(b)
           nsn == NonSubNodes(b)
           ptr == NewPtr(nsn)
           sn_pos == SnMean(b.pos, sub)
           sn_pos_relaxed == SnMean(b.pos_relaxed, sub)
           sn_force == SnMean(b.force, sub)
       IN  /\ sub_nodes' = sub
           /\ non_sub_nodes' = nsn
           /\ data' =
                [ data EXCEPT
                    !.ptr = ptr,
                    !.natoms = Diff(ptr),
                    !.sn_nodes_aggregates = [i \in 1..bs |-> Len(Nth(sub, i))],
                    !.atomic_numbers =
                        WithSuperNodes(b.atomic_numbers, nsn,
                                       [i \in 1..bs |-> SuperNodeAtomicNumber]),
                    !.pos = WithSuperNodes(b.pos, nsn, sn_pos),
                    !.pos_relaxed = WithSuperNodes(b.pos_relaxed, nsn, sn_pos_relaxed),
                    !.force = WithSuperNodes(b.force, nsn, sn_force),
                    !.fixed = WithSuperNodes(b.fixed, nsn, [i \in 1..bs |-> 1]),
                    !.tags = WithSuperNodes(b.tags, nsn, [i \in 1..bs |-> 0]) ]
    /\ pc' = "nodes"
    /\ UNCHANGED <<b, not_both_are_sub, ei_not_both, assoc>>
    /\ UNCHANGED <<several_vars, previous, combined_vars, other_vars>>

\* --------------------------------- lines 225-327: edge filter, re-wiring

\* (b.ptr[i] <= b.edge_index[0]) * (b.edge_index[0] < b.ptr[i + 1])
EiBatchIds(bb) ==
    [i \in 1..BatchSize(bb) |->
        [j \in 1..Len(bb.edge_index[1]) |->
            bb.ptr[i] <= bb.edge_index[1][j] /\ bb.edge_index[1][j] < bb.ptr[i + 1]]]

\* isin(b.edge_index[0][ei_batch_ids[i]], ns) for i, ns in enumerate(non_sub_nodes)
SrcIsNotSub(bb, ids, nsn) ==
    [i \in 1..Len(nsn) |-> IsIn(MaskSelect(bb.edge_index[1], Nth(ids, i)), Nth(nsn, i))]

\* isin(b.edge_index[1][ei_batch_ids[i]], ns) for i, ns in enumerate(non_sub_nodes)
TargetIsNotSub(bb, ids, nsn) ==
    [i \in 1..Len(nsn) |-> IsIn(MaskSelect(bb.edge_index[2], Nth(ids, i)), Nth(nsn, i))]

\* ~s & ~t
NeitherOf(s, t) == [j \in 1..Len(s) |-> ~Nth(s, j) /\ ~Nth(t, j)]

\* BothAreSub with | for &: an edge with one sub-surface end counts as well
BothAreSubEither(src_is_not_sub, target_is_not_sub) ==
    [i \in 1..Len(src_is_not_sub) |->
        [j \in 1..Len(Nth(src_is_not_sub, i)) |->
            ~Nth(Nth(src_is_not_sub, i), j) \/ ~Nth(Nth(target_is_not_sub, i), j)]]

\* [~s & ~t for s, t in zip(src_is_not_sub, target_is_not_sub)]
BothAreSub(src_is_not_sub, target_is_not_sub) ==
    [i \in 1..Len(src_is_not_sub) |->
        NeitherOf(Nth(src_is_not_sub, i), Nth(target_is_not_sub, i))]

Not(mask) == [j \in 1..Len(mask) |-> ~Nth(mask, j)]

\* [~bas for bas in both_are_sub]
NotBothAreSub(both_are_sub) ==
    [i \in 1..Len(both_are_sub) |-> Not(Nth(both_are_sub, i))]

\* tensor([len(n) - n.sum() for n in not_both_are_sub])
SnEdgesAggregates(nbs) ==
    [i \in 1..Len(nbs) |-> Len(Nth(nbs, i)) - Count(Nth(nbs, i))]

\* [b.cell_offsets[ei_batch_ids[i], :] for i in range(batch_size)]
CoBatch(bb, ids) ==
    [i \in 1..Len(ids) |-> MaskSelect(bb.cell_offsets, Nth(ids, i))]

\* cat([cat([co_batch[i][not_both_are_sub[i]], tensor([[0, 0, 0]])]) ...])
NewCellOffsets(co_batch, nbs) ==
    Cat([i \in 1..Len(nbs) |->
            Append(MaskSelect(Nth(co_batch, i), Nth(nbs, i)), <<0, 0, 0>>)])

\* b.edge_index.clone()[:, all_not_both_are_sub]
EiNotBoth(bb, nbs) ==
    LET all_not_both_are_sub == Cat(nbs)
    IN  << MaskSelect(bb.edge_index[1], all_not_both_are_sub),
           MaskSelect(bb.edge_index[2], all_not_both_are_sub) >>

\* mask = zeros(num_nodes); mask[all_non_sub_nodes] = 1 (lines 298-302)
ReindexMask(bb, nsn) ==
    LET num_nodes == bb.ptr[Len(bb.ptr)] + BatchSize(bb)
        all_non_sub_nodes == Cat(nsn)
    IN  [k \in 1..num_nodes |->
            \E m \in 1..Len(all_non_sub_nodes) : Nth(all_non_sub_nodes, m) = k - 1]

\* NewIndices with the index of each super node among the values
NewIndicesWithSuperNodes(ptr) ==
    Cat([e \in 1..(Len(ptr) - 1) |-> Arange(Nth(ptr, e), Nth(ptr, e + 1))])

\* the values written at the True places of mask, in order (lines 305-310)
NewIndices(ptr) ==
    Cat([e \in 1..(Len(ptr) - 1) |-> Arange(Nth(ptr, e), Nth(ptr, e + 1) - 1)])

\* assoc = full(num_nodes, -1); assoc[mask] = values
Assoc(mask, values) ==
    [k \in 1..Len(mask) |->
        IF Nth(mask, k) THEN Nth(values, Count(SubSeq(mask, 1, k))) ELSE Removed]

\* ei_sn = assoc[ei_not_both]
EiSn(as, ei) == << Gather(as, Nth(ei, 1)), Gather(as, Nth(ei, 2)) >>

\* sqrt(((data.pos[ei_sn[0, :]] - data.pos[ei_sn[1, :]]) ** 2).sum(-1)); the
\* value kept is the square (see SqDist)
Distance(pos, ei) ==
    LET p == PyGather(pos, Nth(ei, 1))
        q == PyGather(pos, Nth(ei, 2))
    IN  [j \in 1..Len(p) |-> SqDist(Nth(p, j), Nth(q, j))]

RewireEdges ==
    /\ pc = "nodes"
    /\ LET ei_batch_ids == EiBatchIds(b)
           co_batch == CoBatch(b, ei_batch_ids)
           src_is_not_sub == SrcIsNotSub(b, ei_batch_ids, non_sub_nodes)
           target_is_not_sub == TargetIsNotSub(b, ei_batch_ids, non_sub_nodes)
           both_are_sub == BothAreSub(src_is_not_sub, target_is_not_sub)
           nbs == NotBothAreSub(both_are_sub)
           ei == EiNotBoth(b, nbs)
           mask == ReindexMask(b, non_sub_nodes)
           as == Assoc(mask, NewIndices(data.ptr))
           ei_sn == EiSn(as, ei)
       IN  /\ not_both_are_sub' = nbs
           /\ ei_not_both' = ei
           /\ assoc' = as
           /\ data' =
                [ data EXCEPT
                    !.sn_edges_aggregates = SnEdgesAggregates(nbs),
                    !.cell_offsets = NewCellOffsets(co_batch, nbs),
                    !.edge_index = ei_sn,
                    !.distances = Distance(data.pos, ei_sn) ]
    /\ pc' = "rewired"
    /\ UNCHANGED <<b, sub_nodes, non_sub_nodes>>
    /\ UNCHANGED <<several_vars, previous, combined_vars, other_vars>>

\* ------------------------------------------- lines 328-330: data.neighbors

RECURSIVE SortedSeq(_)
SortedSeq(S) ==
    IF S = {} THEN <<>>
    ELSE LET m == CHOOSE x \in S : \A y \in S : x <= y
         IN  <<m>> \o SortedSeq(S \ {m})

\* torch.unique(t, return_counts=True)[1]: the count of each value that
\* occurs in t, by increasing value
UniqueCounts(t) ==
    LET vals == SortedSeq({ Nth(t, j) : j \in 1..Len(t) })
    IN  [m \in 1..Len(vals) |->
            Cardinality({ j \in 1..Len(t) : Nth(t, j) = Nth(vals, m) })]

\* data.batch[data.edge_index[0, :]]: data.batch is still the copy of b.batch
BatchOfSources(batch, ei) == PyGather(batch, Nth(ei, 1))

CountNeighbors ==
    /\ pc = "rewired"
    /\ IF \A j \in 1..Len(data.edge_index[1]) : PyInRange(data.batch, data.edge_index[1][j])
       THEN /\ data' = [ data EXCEPT
                           !.neighbors =
                               UniqueCounts(BatchOfSources(data.batch, data.edge_index)) ]
            /\ pc' = "counted"
       ELSE \* IndexError (index out of bounds): the script stops here
            /\ pc' = "IndexError"
            /\ UNCHANGED data
    /\ UNCHANGED <<b, sub_nodes, non_sub_nodes, not_both_are_sub, ei_not_both, assoc>>
    /\ UNCHANGED <<several_vars, previous, combined_vars, other_vars>>

\* ----------------------------------------------- lines 332-336: data.batch

\* FillBatch with the range of each graph one place late
RECURSIVE FillBatchLate(_, _, _)
FillBatchLate(batch, ptr, i) ==
    IF i >= Len(ptr) - 1 THEN batch
    ELSE FillBatchLate([k \in 1..Len(batch) |->
                            IF At(ptr, i) < k - 1 /\ k - 1 <= At(ptr, i + 1) THEN i
                            ELSE Nth(batch, k)],
                       ptr, i + 1)

\* for i, p in enumerate(data.ptr[:-1]): batch[arange(p, data.ptr[i + 1])] = i
RECURSIVE FillBatch(_, _, _)
FillBatch(batch, ptr, i) ==
    IF i >= Len(ptr) - 1 THEN batch
    ELSE FillBatch([k \in 1..Len(batch) |->
                        IF At(ptr, i) <= k - 1 /\ k - 1 < At(ptr, i + 1) THEN i
                        ELSE Nth(batch, k)],
                   ptr, i + 1)

\* data.batch = zeros(data.ptr[-1]), then filled graph by graph
NewBatch(ptr) == FillBatch([k \in 1..Nth(ptr, Len(ptr)) |-> 0], ptr, 0)

\* RebuildBatch without the new zeros tensor of line 332: the ranges are
\* written in place into the batch tensor the input still holds
RebuildBatchInPlace ==
    /\ pc = "counted"
    /\ data' = [ data EXCEPT !.batch = FillBatch(data.batch, data.ptr, 0) ]
    /\ b' = [ b EXCEPT !.batch = FillBatch(b.batch, data.ptr, 0) ]
    /\ pc' = "done"
    /\ UNCHANGED <<sub_nodes, non_sub_nodes, not_both_are_sub, ei_not_both, assoc>>
    /\ UNCHANGED <<several_vars, previous, combined_vars, other_vars>>

RebuildBatch ==
    /\ pc = "counted"
    /\ data' = [ data EXCEPT !.batch = NewBatch(data.ptr) ]
    /\ pc' = "done"
    /\ UNCHANGED <<b, sub_nodes, non_sub_nodes, not_both_are_sub, ei_not_both, assoc>>
    /\ UNCHANGED <<several_vars, previous, combined_vars, other_vars>>

\* ----------------------------------------------------------- specification

Unset == "unset"

\* data = deepcopy(b) (line 121); the attributes the block adds are not set yet
DeepCopy(bb) ==
    [ sn_nodes_aggregates |-> Unset, sn_edges_aggregates |-> Unset,
      distances |-> Unset ] @@ bb

\* ------------------------------- lines 353-419: several super node block

(***************************************************************************)
(* The block that follows the single super node block when neither option  *)
(* switches one of them off.  It takes the first batch of the loader again *)
(* (the same batch: b, lines 355-357) and starts from a new copy of it.    *)
(***************************************************************************)

\* torch.unique(b.atomic_numbers[(b.tags == 0) * (b.batch == i)])
AtomTypes(bb) ==
    [i \in 1..BatchSize(bb) |->
        SortedSeq({ bb.atomic_numbers[k] :
                      k \in { m \in 1..Len(bb.tags) :
                                bb.tags[m] = 0 /\ bb.batch[m] = i - 1 } })]

\* [atom_types[i].shape[0] for i in range(batch_size)]
NumSupernodes(atom_types) ==
    [i \in 1..Len(atom_types) |-> Len(Nth(atom_types, i))]

\* where((b.atomic_numbers == an) * (b.tags == 0) * (b.batch == i))[0]
\* for an in atom_types[i], for i in range(batch_size)
SupernodesComposition(bb, atom_types) ==
    [i \in 1..Len(atom_types) |->
        [j \in 1..Len(Nth(atom_types, i)) |->
            Where([k \in 1..Len(bb.tags) |->
                      /\ bb.atomic_numbers[k] = Nth(Nth(atom_types, i), j)
                      /\ bb.tags[k] = 0
                      /\ bb.batch[k] = i - 1])]]

\* [[b.ptr[1:][i] + sn for sn in range(num_supernodes[i])] for i in ...]
SnIdxes(bb, num_supernodes) ==
    [i \in 1..Len(num_supernodes) |->
        [j \in 1..Nth(num_supernodes, i) |-> bb.ptr[i + 1] + (j - 1)]]

\* [b.pos[sn, :][0] for sublist in supernodes_composition for sn in sublist]
SupernodesPos(bb, composition) ==
    Cat([i \in 1..Len(composition) |->
            [j \in 1..Len(Nth(composition, i)) |->
                At(bb.pos, Head(Nth(Nth(composition, i), j)))]])

\* b.edge_index[:, ei_batch_ids[i]] for i in range(batch_size)
EiBatch(bb, ids) ==
    [i \in 1..Len(ids) |->
        << MaskSelect(bb.edge_index[1], Nth(ids, i)),
           MaskSelect(bb.edge_index[2], Nth(ids, i)) >>]

\* torch.where(torch.isin(t, sc), sn, t) on one row of indices
SubstituteRow(t, sc, sn) ==
    [j \in 1..Len(t) |->
        IF \E m \in 1..Len(sc) : Nth(sc, m) = Nth(t, j) THEN sn ELSE Nth(t, j)]

\* for j, sc in enumerate(supernodes_composition[i]): ei_batch[i] = where(...)
RECURSIVE Substitute(_, _, _, _)
Substitute(adj, composition, idxes, j) ==
    IF j > Len(composition) THEN adj
    ELSE Substitute(<< SubstituteRow(Nth(adj, 1), Nth(composition, j), Nth(idxes, j)),
                       SubstituteRow(Nth(adj, 2), Nth(composition, j), Nth(idxes, j)) >>,
                    composition, idxes, j + 1)

\* RemoveSelfLoops that removes nothing
KeepSelfLoops(adj) == adj

\* remove_self_loops(adj)[0]
RemoveSelfLoops(adj) ==
    LET keep == [j \in 1..Len(Nth(adj, 1)) |-> Nth(Nth(adj, 1), j) # Nth(Nth(adj, 2), j)]
    IN  << MaskSelect(Nth(adj, 1), keep), MaskSelect(Nth(adj, 2), keep) >>

\* the pairs of S by increasing source, then increasing target
RECURSIVE SortedPairs(_)
SortedPairs(S) ==
    IF S = {} THEN <<>>
    ELSE LET m == CHOOSE x \in S :
                     \A y \in S : x[1] < y[1] \/ (x[1] = y[1] /\ x[2] <= y[2])
         IN  <<m>> \o SortedPairs(S \ {m})

\* torch.unique(adj, dim=1): the distinct columns, sorted
UniqueColumns(adj) ==
    LET cols == SortedPairs({ <<Nth(Nth(adj, 1), j), Nth(Nth(adj, 2), j)>> :
                                j \in 1..Len(Nth(adj, 1)) })
    IN  << [j \in 1..Len(cols) |-> Nth(cols, j)[1]],
           [j \in 1..Len(cols) |-> Nth(cols, j)[2]] >>

\* [torch.unique(remove_self_loops(adj)[0], dim=1) for adj in ei_batch],
\* ei_batch after the substitution of lines 410-414
CleanNewEdgeIndex(ei_batch, composition, idxes) ==
    [i \in 1..Len(ei_batch) |->
        UniqueColumns(RemoveSelfLoops(
            Substitute(Nth(ei_batch, i), Nth(composition, i), Nth(idxes, i), 1)))]

\* entered when the single super node block is done, or first when that block
\* is switched off (opts.no_single_super_node)
SubstituteEdges ==
    /\ pc \in {"start", "done"}
    /\ LET atom_types == AtomTypes(b)
           num_supernodes == NumSupernodes(atom_types)
           composition == SupernodesComposition(b, atom_types)
           idxes == SnIdxes(b, num_supernodes)
           ei_batch == EiBatch(b, EiBatchIds(b))
       IN  /\ supernodes_composition' = composition
           /\ sn_idxes' = idxes
           /\ supernodes_pos' = SupernodesPos(b, composition)
           /\ clean_new_edge_index' = CleanNewEdgeIndex(ei_batch, composition, idxes)
    /\ data' = DeepCopy(b)
    /\ sub_nodes' = SubNodes(b)
    /\ non_sub_nodes' = NonSubNodes(b)
    /\ pc' = IF pc = "done" THEN "cleaned after single" ELSE "cleaned"
    /\ UNCHANGED <<b, not_both_are_sub, ei_not_both, assoc>>
    /\ UNCHANGED <<concat_reindexed_clean_edge_index, distance, previous, combined_vars, other_vars>>

\* ------------------------------- lines 421-452: several super node block

\* mask = ones(num_nodes); mask[sub_nodes[i]] = 0; mask[:data.ptr[i]] = 0
SeveralMask(ptr, sub, num_supernodes, i) ==
    LET num_nodes == Nth(ptr, i + 1) + Nth(num_supernodes, i)
        sub_i == Nth(sub, i)
    IN  [k \in 1..num_nodes |->
            /\ k - 1 >= Nth(ptr, i)
            /\ ~(\E m \in 1..Len(sub_i) : Nth(sub_i, m) = k - 1)]

\* SeveralAssoc with the new indices of every graph numbered from 0
SeveralAssocFromZero(ptr, sub, num_supernodes, i, max_num_nodes) ==
    LET mask == SeveralMask(ptr, sub, num_supernodes, i)
    IN  Assoc(mask, Arange(0, Count(mask)))

\* assoc of graph i: the True places of its mask numbered from max_num_nodes
SeveralAssoc(ptr, sub, num_supernodes, i, max_num_nodes) ==
    LET mask == SeveralMask(ptr, sub, num_supernodes, i)
    IN  Assoc(mask, Arange(max_num_nodes, max_num_nodes + Count(mask)))

\* the loop of lines 424-438 from graph i on: the assoc of each graph
RECURSIVE SeveralAssocs(_, _, _, _, _)
SeveralAssocs(ptr, sub, num_supernodes, i, max_num_nodes) ==
    IF i > Len(sub) THEN <<>>
    ELSE LET as == SeveralAssoc(ptr, sub, num_supernodes, i, max_num_nodes)
         IN  <<as>> \o SeveralAssocs(ptr, sub, num_supernodes, i + 1, MaxOf(as) + 1)

\* reindexed_clean_edge_index[i] = assoc[clean_new_edge_index[i]]
Reindexed(assocs, clean) ==
    [i \in 1..Len(clean) |->
        << PyGather(Nth(assocs, i), Nth(Nth(clean, i), 1)),
           PyGather(Nth(assocs, i), Nth(Nth(clean, i), 2)) >>]

\* torch.cat(reindexed_clean_edge_index, dim=1)
ConcatColumns(eis) ==
    << Cat([i \in 1..Len(eis) |-> Nth(Nth(eis, i), 1)]),
       Cat([i \in 1..Len(eis) |-> Nth(Nth(eis, i), 2)]) >>

ReindexEdges ==
    /\ pc \in {"cleaned", "cleaned after single"}
    /\ LET num_supernodes ==
               [i \in 1..Len(supernodes_composition) |-> Len(supernodes_composition[i])]
           assocs == SeveralAssocs(data.ptr, sub_nodes, num_supernodes, 1, 0)
           concat == ConcatColumns(Reindexed(assocs, clean_new_edge_index))
       IN  /\ assoc' = Nth(assocs, Len(assocs))
           /\ concat_reindexed_clean_edge_index' = concat
           /\ distance' = Distance(data.pos, concat)
    /\ pc' = IF pc = "cleaned" THEN "several done" ELSE "both done"
    /\ UNCHANGED <<b, data, sub_nodes, non_sub_nodes, not_both_are_sub, ei_not_both>>
    /\ UNCHANGED <<supernodes_composition, sn_idxes, supernodes_pos>>
    /\ UNCHANGED <<clean_new_edge_index, previous, combined_vars, other_vars>>

\* ------------------------------------------------------------------- specs

Init ==
    /\ \/ \E sizes \in SizesSet :
            \E kinds \in KindsSet(PtrOf(sizes)) :
              \E es \in EdgeLists(PtrOf(sizes)) :
                 b = MakeBatch(sizes, kinds, es)
       \/ \E kinds \in ScenarioKinds :
            b = MakeBatch(ScenarioSizes, kinds, ScenarioEdges)
    /\ data = DeepCopy(b)
    /\ sub_nodes = Unset
    /\ non_sub_nodes = Unset
    /\ not_both_are_sub = Unset
    /\ ei_not_both = Unset
    /\ assoc = Unset
    /\ supernodes_composition = Unset
    /\ sn_idxes = Unset
    /\ supernodes_pos = Unset
    /\ clean_new_edge_index = Unset
    /\ concat_reindexed_clean_edge_index = Unset
    /\ distance = Unset
    /\ previous = <<>>
    /\ self = Unset
    /\ random_sites = Unset
    /\ adsorbed_surfaces = Unset
    /\ reasonable_adsorbed_surfaces = Unset
    /\ trainer = Unset
    /\ frame = Unset
    /\ calls = Unset
    /\ spinner = Unset
    /\ stdout = Unset
    /\ pc = "start"

Next ==
    \/ ReduceNodes
    \/ RewireEdges
    \/ CountNeighbors
    \/ RebuildBatch

Spec == Init /\ [][Next]_vars

\* the edge columns of a batch of this ptr in any order, those of the graphs
\* mixed
AnyOrderEdgeLists(ptr) ==
    LET choices == EdgeChoices(ptr)
    IN  UNION { [1..m -> choices] : m \in 0..(MaxSize - 2 * ptr[Len(ptr)]) }

\* a batch of several graphs whose edge columns come in any order
InitAnyOrder ==
    /\ \E sizes \in { sz \in SizesSet : Len(sz) >= 2 } :
          \E kinds \in KindsSet(PtrOf(sizes)) :
             \E es \in AnyOrderEdgeLists(PtrOf(sizes)) :
                b = MakeBatch(sizes, kinds, es)
    /\ data = DeepCopy(b)
    /\ sub_nodes = Unset
    /\ non_sub_nodes = Unset
    /\ not_both_are_sub = Unset
    /\ ei_not_both = Unset
    /\ assoc = Unset
    /\ supernodes_composition = Unset
    /\ sn_idxes = Unset
    /\ supernodes_pos = Unset
    /\ clean_new_edge_index = Unset
    /\ concat_reindexed_clean_edge_index = Unset
    /\ distance = Unset
    /\ previous = <<>>
    /\ self = Unset
    /\ random_sites = Unset
    /\ adsorbed_surfaces = Unset
    /\ reasonable_adsorbed_surfaces = Unset
    /\ trainer = Unset
    /\ frame = Unset
    /\ calls = Unset
    /\ spinner = Unset
    /\ stdout = Unset
    /\ pc = "start"

\* the single super node block on such a batch
SpecAnyOrder == InitAnyOrder /\ [][Next]_vars

\* the several super node block
NextSeveral ==
    \/ SubstituteEdges
    \/ ReindexEdges

\* the script with no option set: one block, then the other
SpecBothBlocks == Init /\ [][Next \/ NextSeveral]_vars

\* the script with the single super node block switched off
SpecSeveral == Init /\ [][NextSeveral]_vars

\* the single super node block run again on the same batch once it is done:
\* line 121 anew, the names of the first run still bound
Rerun ==
    /\ pc = "done"
    /\ previous = <<>>
    /\ previous' = <<data>>
    /\ data' = DeepCopy(b)
    /\ pc' = "start"
    /\ UNCHANGED <<b, sub_nodes, non_sub_nodes, not_both_are_sub, ei_not_both, assoc>>
    /\ UNCHANGED <<several_vars, combined_vars, other_vars>>

\* the batches of the block run twice: one size below the largest, a behaviour
\* being twice as long
InitRerun ==
    /\ Init
    /\ 2 * Len(b.tags) + Len(b.edge_index[1]) < MaxSize

\* the single super node block, run twice on one batch
SpecRerun == InitRerun /\ [][Next \/ Rerun]_vars

\* ------------------------- combined.py: placing an adsorbate on a surface

\* bound: the number of random placements asked for (random_sites)
MaxSites == 3
\* bound: the number of simplices of the triangulation of the surface atoms
MaxSimplices == 2

\* the tags of the surface handed in: 0 bulk, 1 surface
SurfaceTagsSet == {<<0, 1>>, <<0, 0, 1, 1>>}
\* the tags of the adsorbate handed in: an ase.Atoms carries tag 0 unless tagged
AdsorbateTagsSet == {<<0>>, <<0, 0>>, <<2, 2>>}
\* the indices of the binding atoms of the adsorbate
BondIndicesSet == {<<0>>}

Max(x, y) == IF x > y THEN x ELSE y
Min(x, y) == IF x < y THEN x ELSE y

\* str(n) for an integer n >= 0
Digits == <<"0", "1", "2", "3", "4", "5", "6", "7", "8", "9">>
RECURSIVE Str(_)
Str(n) == IF n < 10 THEN Digits[n + 1] ELSE Str(n \div 10) \o Digits[(n % 10) + 1]

\* str(ind) + "/" + str(len(reasonable_adsorbed_surfaces)), with ind counted
\* from one
SamplingStrFromOne(ind, total) == Str(ind + 1) \o "/" \o Str(total)

\* str(ind) + "/" + str(len(reasonable_adsorbed_surfaces))
SamplingStr(ind, total) == Str(ind) \o "/" \o Str(total)

\* equal_distr = max(1, int(num_sites / len(simplices)))
EqualDistr(num_sites, simplices) == Max(1, num_sites \div Len(simplices))

\* _random_sites_on_triangle: k sites drawn on the triangle; a site is named by
\* its triangle and the number of its draw
RandomSitesOnTriangle(tri, k) == [j \in 1..k |-> <<tri, j>>]

\* the loop of generate_random_sites: all_sites += sites, per simplex
RECURSIVE AllSites(_, _)
AllSites(simplices, k) ==
    IF simplices = <<>> THEN <<>>
    ELSE RandomSitesOnTriangle(Head(simplices), k) \o AllSites(Tail(simplices), k)

\* t[:n] for n >= 0
PySlice(t, n) == SubSeq(t, 1, Min(n, Len(t)))

\* generate_random_sites(surface_atoms_pos, num_sites)
GenerateRandomSites(simplices, num_sites) ==
    PySlice(AllSites(simplices, EqualDistr(num_sites, simplices)), num_sites)

\* [2] * len(adsorbate)
Twos(n) == [k \in 1..n |-> 2]

\* final_tags = list(surface.get_tags()) + tags
FinalTags(adsorbate, surface) == surface.tags \o Twos(Len(adsorbate.tags))

\* one turn of the loop of place_adsorbate_on_sites: surface_c + adsorbate_c
\* keeps the tags of both; set_tags(final_tags) is under the if
Adslab(adsorbate, surface, site, rotate_adsorbate) ==
    [tags |-> IF rotate_adsorbate THEN FinalTags(adsorbate, surface)
              ELSE surface.tags \o adsorbate.tags,
     at |-> site,
     constrained |-> FALSE]

\* place_adsorbate_on_sites(adsorbate, surface, random_sites)
PlaceAdsorbateOnSites(adsorbate, surface, sites, rotate_adsorbate) ==
    [j \in 1..Len(sites) |->
        <<sites[j], Adslab(adsorbate, surface, sites[j], rotate_adsorbate)>>]

\* convert_adsorbate_atoms_to_gratoms: 3 for a binding atom, 2 for the others
GratomsTags(adsorbate) ==
    [k \in 1..Len(adsorbate.tags) |->
        IF \E j \in 1..Len(adsorbate.bond_indices) : adsorbate.bond_indices[j] = k - 1
        THEN 3 ELSE 2]

\* builder.add_adsorbate: count placements of the tagged adsorbate, found by
\* catkit
BuilderAddAdsorbate(adsorbate, surface, count) ==
    [j \in 1..count |->
        [tags |-> surface.tags \o GratomsTags(adsorbate),
         at |-> <<"catkit", j>>,
         constrained |-> FALSE]]

\* adsorbate_indices = [atom.index for atom in adslab if atom.tag >= 2]
AdsorbateIndices(adslab) ==
    MaskSelect(Arange(0, Len(adslab.tags)),
               [k \in 1..Len(adslab.tags) |-> adslab.tags[k] >= 2])

\* is_config_reasonable(adslab): the values it can return. The distances are
\* those of the geometry, which is not modelled; with no adsorbate atom found
\* the loop has no turn and the answer is True
IsConfigReasonable(adslab) ==
    IF AdsorbateIndices(adslab) = <<>> THEN {TRUE} ELSE BOOLEAN

\* Combined.is_config_reasonable, on acceptance: tags 3 become 2
TagsCleaned(adslab) ==
    [adslab EXCEPT !.tags = [k \in 1..Len(adslab.tags) |->
                                IF adslab.tags[k] = 3 THEN 2 ELSE adslab.tags[k]]]

\* the atoms of an entry of adsorbed_surfaces: the entry itself in Combined,
\* the second of the pair (site, atoms) in CombinedRandomly
AtomsOf(entry) == IF self.cls = "Combined" THEN entry ELSE entry[2]

\* constrain_surface(atoms): a copy of the atoms, constraints set
ConstrainSurface(atoms) == [atoms EXCEPT !.constrained = TRUE]

\* find_sites: the coordinates of the binding atoms of the placement
FindSites(atoms) == atoms.at

\* the attributes a constructor sets first (lines 53-55 and 351-359)
NewCombined(adsorbate, surface, enumerate_all_configs) ==
    [cls |-> "Combined", adsorbate |-> adsorbate, surface |-> surface,
     enumerate_all_configs |-> enumerate_all_configs,
     random_sites |-> 0, rotate_adsorbate |-> FALSE,
     num_configs |-> 0,
     adsorbed_surface_atoms |-> <<>>, adsorbed_surface_sampling_strs |-> <<>>,
     constrained_adsorbed_surfaces |-> <<>>, all_sites |-> <<>>]

NewCombinedRandomly(adsorbate, surface, num_sites, enumerate_all_configs, rotate_adsorbate) ==
    [cls |-> "CombinedRandomly", adsorbate |-> adsorbate, surface |-> surface,
     enumerate_all_configs |-> enumerate_all_configs,
     random_sites |-> num_sites, rotate_adsorbate |-> rotate_adsorbate,
     num_configs |-> 0,
     adsorbed_surface_atoms |-> <<>>, adsorbed_surface_sampling_strs |-> <<>>,
     constrained_adsorbed_surfaces |-> <<>>, all_sites |-> <<>>]

\* the variables of the other programs
rewiring_vars ==
    <<b, data, sub_nodes, non_sub_nodes, not_both_are_sub, ei_not_both, assoc,
      several_vars, previous>>

\* line 397
GenerateSites ==
    /\ pc = "randomly"
    /\ random_sites' = GenerateRandomSites(self.surface.simplices, self.random_sites)
    /\ pc' = "sites"
    /\ UNCHANGED <<self, adsorbed_surfaces, reasonable_adsorbed_surfaces>>
    /\ UNCHANGED <<rewiring_vars, other_vars>>

\* lines 398-400
PlaceOnSites ==
    /\ pc = "sites"
    /\ adsorbed_surfaces' =
          PlaceAdsorbateOnSites(self.adsorbate, self.surface, random_sites,
                                self.rotate_adsorbate)
    /\ pc' = "placed"
    /\ UNCHANGED <<self, random_sites, reasonable_adsorbed_surfaces>>
    /\ UNCHANGED <<rewiring_vars, other_vars>>

\* lines 101-116: the placements catkit finds
BuildPlacements ==
    /\ pc = "heuristic"
    /\ \E count \in 0..MaxSites :
          adsorbed_surfaces' = BuilderAddAdsorbate(self.adsorbate, self.surface, count)
    /\ pc' = "placed"
    /\ UNCHANGED <<self, random_sites, reasonable_adsorbed_surfaces>>
    /\ UNCHANGED <<rewiring_vars, other_vars>>

\* lines 118-148 and 403-433: the filter, then all of the accepted or one of them
SelectConfigs ==
    /\ pc = "placed"
    /\ \E verdict \in [1..Len(adsorbed_surfaces) -> BOOLEAN] :
          /\ \A j \in 1..Len(adsorbed_surfaces) :
                verdict[j] \in IsConfigReasonable(AtomsOf(adsorbed_surfaces[j]))
          /\ LET kept == MaskSelect(adsorbed_surfaces, verdict)
                 reasonable ==
                     IF self.cls = "Combined"
                     THEN [j \in 1..Len(kept) |-> TagsCleaned(kept[j])]
                     ELSE kept
                 total == Len(reasonable)
             IN  /\ reasonable_adsorbed_surfaces' = reasonable
                 /\ IF self.enumerate_all_configs
                    THEN /\ self' =
                              [self EXCEPT
                                 !.num_configs = total,
                                 !.adsorbed_surface_atoms = reasonable,
                                 !.adsorbed_surface_sampling_strs =
                                     [j \in 1..total |-> SamplingStr(j - 1, total)]]
                         /\ pc' = "selected"
                    ELSE IF total = 0
                    THEN \* np.random.choice(0) raises
                         /\ self' = [self EXCEPT !.num_configs = 1]
                         /\ pc' = "ValueError"
                    ELSE \E index \in 0..(total - 1) :
                         /\ self' =
                              [self EXCEPT
                                 !.num_configs = 1,
                                 !.adsorbed_surface_atoms = <<At(reasonable, index)>>,
                                 !.adsorbed_surface_sampling_strs =
                                     <<SamplingStr(index, total)>>]
                         /\ pc' = "selected"
    /\ UNCHANGED <<random_sites, adsorbed_surfaces>>
    /\ UNCHANGED <<rewiring_vars, other_vars>>

\* lines 63-76 and 362-374: the loop over self.adsorbed_surface_atoms
ConstrainAll ==
    /\ pc = "selected"
    /\ LET atoms == self.adsorbed_surface_atoms
           constrained == [j \in 1..Len(atoms) |-> ConstrainSurface(AtomsOf(atoms[j]))]
       IN  self' =
              [self EXCEPT
                 !.constrained_adsorbed_surfaces = constrained,
                 !.all_sites =
                     [j \in 1..Len(atoms) |->
                         IF self.cls = "Combined" THEN FindSites(constrained[j])
                         ELSE atoms[j][1]]]
    /\ pc' = "constructed"
    /\ UNCHANGED <<random_sites, adsorbed_surfaces, reasonable_adsorbed_surfaces>>
    /\ UNCHANGED <<rewiring_vars, other_vars>>

\* an adsorbate and a surface, and the arguments of one of the constructors
InitCombined ==
    /\ \E atags \in AdsorbateTagsSet, bond \in BondIndicesSet, stags \in SurfaceTagsSet,
          enum \in BOOLEAN :
          LET adsorbate == [tags |-> atags, bond_indices |-> bond]
          IN  \/ /\ self = NewCombined(adsorbate,
                                       [tags |-> stags, simplices |-> <<>>], enum)
                 /\ pc = "heuristic"
              \/ \E num_sites \in 1..MaxSites, t \in 1..MaxSimplices,
                    rotate \in BOOLEAN :
                    /\ self = NewCombinedRandomly(
                                 adsorbate,
                                 [tags |-> stags, simplices |-> [j \in 1..t |-> j]],
                                 num_sites, enum, rotate)
                    /\ pc = "randomly"
    /\ random_sites = <<>>
    /\ adsorbed_surfaces = <<>>
    /\ reasonable_adsorbed_surfaces = <<>>
    /\ trainer = Unset
    /\ frame = Unset
    /\ calls = Unset
    /\ spinner = Unset
    /\ stdout = Unset
    /\ b = Unset
    /\ data = Unset
    /\ sub_nodes = Unset
    /\ non_sub_nodes = Unset
    /\ not_both_are_sub = Unset
    /\ ei_not_both = Unset
    /\ assoc = Unset
    /\ supernodes_composition = Unset
    /\ sn_idxes = Unset
    /\ supernodes_pos = Unset
    /\ clean_new_edge_index = Unset
    /\ concat_reindexed_clean_edge_index = Unset
    /\ distance = Unset
    /\ previous = <<>>

NextCombined ==
    \/ GenerateSites
    \/ PlaceOnSites
    \/ BuildPlacements
    \/ SelectConfigs
    \/ ConstrainAll

\* the construction of a Combined or of a CombinedRandomly
SpecCombined == InitCombined /\ [][NextCombined]_vars

\* ------------------------------------ energy_trainer.py: EnergyTrainer.predict

\* bound: the number of batches of a loader
MaxBatches == 2

\* the batches of a loader: the sid of their systems and the energy the model
\* gives each
BatchKinds ==
    { [sid |-> <<7>>, energy |-> <<3>>],
      [sid |-> <<8, 9>>, energy |-> <<1, 4>>] }

\* the loaders of at most MaxBatches batches; a single Batch passed in place of
\* a loader becomes the loader of that batch (lines 128-129)
Loaders == UNION { [1..n -> BatchKinds] : n \in 0..MaxBatches }

\* self.normalizers["target"].denorm(out["energy"]) for a normalizer of mean 1
\* and std 2
Denorm(energy) == [j \in 1..Len(energy) |-> energy[j] * 2 + 1]

\* lines 147-151: the forward pass on a batch, de-normalised when there is a
\* target normalizer
PredictForward(batch, normalizers) ==
    IF normalizers THEN Denorm(batch.energy) ELSE batch.energy

\* [str(i) for i in batch[0].sid.tolist()]
SidStrs(batch) == [j \in 1..Len(batch.sid) |-> Str(batch.sid[j])]

\* lines 131-134
EmaEnterCalls(ema) ==
    <<"model.eval">> \o (IF ema THEN <<"ema.store", "ema.copy_to">> ELSE <<>>)

\* lines 160-163
PredictExitCalls(ema) ==
    <<"save_results">> \o (IF ema THEN <<"ema.restore">> ELSE <<>>)

\* lines 117-138
PredictEnter ==
    /\ pc = "predict"
    /\ calls' = calls \o EmaEnterCalls(trainer.ema)
    /\ frame' = [frame EXCEPT !.predictions = [id |-> <<>>, energy |-> <<>>]]
    /\ pc' = "predict loop"
    /\ UNCHANGED trainer
    /\ UNCHANGED <<rewiring_vars, combined_vars, loader_vars>>

\* lines 140-158: one turn of the loop
PredictBatch ==
    /\ pc = "predict loop"
    /\ frame.i < Len(frame.loader)
    /\ LET batch == frame.loader[frame.i + 1]
           energy == PredictForward(batch, trainer.normalizers)
       IN  IF frame.per_image
           THEN /\ frame' =
                     [frame EXCEPT
                        !.i = frame.i + 1,
                        !.predictions =
                            [id |-> frame.predictions.id \o SidStrs(batch),
                             energy |-> frame.predictions.energy \o energy]]
                /\ pc' = "predict loop"
           ELSE /\ frame' = [frame EXCEPT !.predictions.energy = energy]
                /\ pc' = "predict returned"
    /\ UNCHANGED <<trainer, calls>>
    /\ UNCHANGED <<rewiring_vars, combined_vars, loader_vars>>

\* lines 160-165: after the loop
PredictFinish ==
    /\ pc = "predict loop"
    /\ frame.i = Len(frame.loader)
    /\ calls' = calls \o PredictExitCalls(trainer.ema)
    /\ pc' = "predict returned"
    /\ UNCHANGED <<trainer, frame>>
    /\ UNCHANGED <<rewiring_vars, combined_vars, loader_vars>>

\* a trainer with or without EMA and target normalizer, and a call of predict
InitPredict ==
    /\ \E ema \in BOOLEAN, normalizers \in BOOLEAN :
          trainer = [ema |-> ema, normalizers |-> normalizers]
    /\ \E loader \in Loaders, per_image \in BOOLEAN :
          frame = [loader |-> loader, per_image |-> per_image, i |-> 0,
                   predictions |-> <<>>]
    /\ calls = <<>>
    /\ pc = "predict"
    /\ spinner = Unset
    /\ stdout = Unset
    /\ self = Unset
    /\ random_sites = Unset
    /\ adsorbed_surfaces = Unset
    /\ reasonable_adsorbed_surfaces = Unset
    /\ b = Unset
    /\ data = Unset
    /\ sub_nodes = Unset
    /\ non_sub_nodes = Unset
    /\ not_both_are_sub = Unset
    /\ ei_not_both = Unset
    /\ assoc = Unset
    /\ supernodes_composition = Unset
    /\ sn_idxes = Unset
    /\ supernodes_pos = Unset
    /\ clean_new_edge_index = Unset
    /\ concat_reindexed_clean_edge_index = Unset
    /\ distance = Unset
    /\ previous = <<>>

NextPredict ==
    \/ PredictEnter
    \/ PredictBatch
    \/ PredictFinish

\* one call of EnergyTrainer.predict
SpecPredict == InitPredict /\ [][NextPredict]_vars

\* -------------------------------------- energy_trainer.py: EnergyTrainer.train

\* bound: len(self.train_loader)
MaxLen == 2
\* bound: self.config["optim"]["max_epochs"]
MaxEpochs == 2

\* self.best_val_mae = 1e9
InitialBestValMae == 1000000000

\* the metric validate() returns at a step, for three courses of a training:
\* one that improves at every step, one that never improves after the first
\* validation, one that goes up and down
ValCurves == {"falling", "rising", "waving"}
ValMetric(curve, step) ==
    IF curve = "falling" THEN 1000 - step
    ELSE IF curve = "rising" THEN 1000 + step
    ELSE IF step % 2 = 1 THEN 1000 - step ELSE 1000 + step

\* the number of decimal digits of n >= 0
RECURSIVE NumDigits(_)
NumDigits(n) == IF n < 10 THEN 1 ELSE 1 + NumDigits(n \div 10)

\* str(n).zfill(width)
Zfill(n, width) ==
    LET Zeros[k \in 0..width] == IF k = 0 THEN "" ELSE "0" \o Zeros[k - 1]
    IN  IF NumDigits(n) >= width THEN Str(n) ELSE Zeros[width - NumDigits(n)] \o Str(n)

\* f"checkpoint-{str(self.step).zfill(6)}.pt"
CheckpointFile(step) == "checkpoint-" \o Zfill(step, 6) \o ".pt"

\* the condition of line 222 taken one step late
IsEvalStepLate(step, eval_every) == (step - 1) % eval_every = 0

\* self.step % eval_every == 0
IsEvalStep(step, eval_every) == step % eval_every = 0

\* lines 168-179
TrainBegin ==
    /\ pc = "train"
    /\ trainer' = [trainer EXCEPT !.best_val_mae = InitialBestValMae]
    /\ frame' = [frame EXCEPT
                    !.start_epoch = trainer.step \div trainer.len_train_loader,
                    !.epoch_int = trainer.step \div trainer.len_train_loader]
    /\ pc' = "epoch loop"
    /\ UNCHANGED calls
    /\ UNCHANGED <<rewiring_vars, combined_vars, loader_vars>>

\* lines 181-187: the next epoch begins
EpochBegin ==
    /\ pc = "epoch loop"
    /\ frame.epoch_int < trainer.max_epochs
    /\ frame' = [frame EXCEPT
                    !.skip_steps = trainer.step % trainer.len_train_loader,
                    !.i = trainer.step % trainer.len_train_loader]
    /\ calls' = calls
                \o <<[call |-> "set_epoch", epoch_int |-> frame.epoch_int]>>
                \o (IF frame.epoch_int = 1 /\ trainer.logger
                    THEN <<[call |-> "log", key |-> "Epoch time"]>> ELSE <<>>)
    /\ pc' = "step loop"
    /\ UNCHANGED trainer
    /\ UNCHANGED <<rewiring_vars, combined_vars, loader_vars>>

\* lines 222-268: what the evaluation of a step calls, and the best metric after
Evaluation(step, epoch_int) ==
    LET metric == ValMetric(trainer.curve, step)
        improved == metric < trainer.best_val_mae
        last == epoch_int = trainer.max_epochs - 1
    IN  [calls |->
            <<[call |-> "save", checkpoint_file |-> CheckpointFile(step), step |-> step]>>
            \o (IF trainer.val_loader
                THEN <<[call |-> "validate", step |-> step, metric |-> metric]>>
                     \o (IF improved
                         THEN <<[call |-> "save", checkpoint_file |-> "best_checkpoint.pt",
                                 step |-> step]>>
                              \o (IF trainer.test_loader
                                  THEN <<[call |-> "predict", step |-> step]>> ELSE <<>>)
                         ELSE <<>>)
                     \o (IF (epoch_int % 100 = 0 /\ epoch_int # 0) \/ last
                         THEN <<[call |-> "eval_all_val_splits", final |-> last]>>
                         ELSE <<>>)
                     \o (IF trainer.is_hpo
                         THEN <<[call |-> "hpo_update", step |-> step]>> ELSE <<>>)
                ELSE <<>>),
         val_metrics |-> IF trainer.val_loader THEN <<metric>> ELSE frame.val_metrics,
         best_val_mae |-> IF trainer.val_loader /\ improved THEN metric
                          ELSE trainer.best_val_mae]

\* lines 189-276: one turn of the inner loop
TrainStep ==
    /\ pc = "step loop"
    /\ frame.i < trainer.len_train_loader
    /\ LET step == frame.epoch_int * trainer.len_train_loader + frame.i + 1
           epoch == <<step, trainer.len_train_loader>>
           trained == <<[call |-> "train step", step |-> step,
                         epoch_int |-> frame.epoch_int, i |-> frame.i]>>
           eval == IsEvalStep(step, frame.eval_every)
           ev == IF eval THEN Evaluation(step, frame.epoch_int)
                 ELSE [calls |-> <<>>, val_metrics |-> frame.val_metrics,
                       best_val_mae |-> trainer.best_val_mae]
           plateau == trainer.scheduler_type = "ReduceLROnPlateau"
       IN  /\ trainer' = [trainer EXCEPT !.step = step, !.epoch = epoch,
                                         !.best_val_mae = ev.best_val_mae]
           /\ IF plateau /\ eval /\ ev.val_metrics = <<>>
              THEN \* val_metrics is not bound
                   /\ calls' = calls \o trained \o ev.calls
                   /\ frame' = [frame EXCEPT !.batch = <<step>>]
                   /\ pc' = "UnboundLocalError: val_metrics"
              ELSE /\ calls' =
                        calls \o trained \o ev.calls
                        \o (IF plateau
                            THEN (IF eval
                                  THEN <<[call |-> "scheduler.step", step |-> step,
                                          metrics |-> ev.val_metrics[1]]>>
                                  ELSE <<>>)
                            ELSE <<[call |-> "scheduler.step", step |-> step]>>)
                   /\ frame' = [frame EXCEPT !.i = frame.i + 1,
                                             !.batch = <<step>>,
                                             !.val_metrics = ev.val_metrics]
                   /\ pc' = "step loop"
    /\ UNCHANGED <<rewiring_vars, combined_vars, loader_vars>>

\* line 278 and the end of the turn of line 181
EpochEnd ==
    /\ pc = "step loop"
    /\ frame.i >= trainer.len_train_loader
    /\ frame' = [frame EXCEPT !.epoch_int = frame.epoch_int + 1]
    /\ calls' = calls \o <<[call |-> "empty_cache"]>>
    /\ pc' = "epoch loop"
    /\ UNCHANGED trainer
    /\ UNCHANGED <<rewiring_vars, combined_vars, loader_vars>>

\* lines 293-297
CloseCalls ==
    <<[call |-> "close_db", dataset |-> "train"]>>
    \o (IF trainer.val_loader THEN <<[call |-> "close_db", dataset |-> "val"]>> ELSE <<>>)
    \o (IF trainer.test_loader THEN <<[call |-> "close_db", dataset |-> "test"]>> ELSE <<>>)

\* lines 280-297: after the loop of the epochs
TrainFinish ==
    /\ pc = "epoch loop"
    /\ frame.epoch_int >= trainer.max_epochs
    /\ IF trainer.logger /\ frame.batch = <<>>
       THEN \* line 284: batch is not bound
            /\ pc' = "UnboundLocalError: batch"
            /\ UNCHANGED calls
       ELSE LET timed == IF trainer.logger
                         THEN <<[call |-> "log", key |-> "Batch time"]>> ELSE <<>>
            IN  IF trainer.test_rotation_invariance /\ ~trainer.logger
                THEN \* line 290: self.logger is None
                     /\ pc' = "AttributeError"
                     /\ calls' = calls \o timed
                ELSE /\ calls' =
                          calls \o timed
                          \o (IF trainer.test_rotation_invariance
                              THEN <<[call |-> "log", key |-> "2D_ri"],
                                     [call |-> "log", key |-> "3D_ri"]>>
                              ELSE <<>>)
                          \o CloseCalls
                     /\ pc' = "train returned"
    /\ UNCHANGED <<trainer, frame>>
    /\ UNCHANGED <<rewiring_vars, combined_vars, loader_vars>>

\* a trainer, new or resumed at a step, and a call of train
InitTrain ==
    /\ \E len \in 1..MaxLen, max_epochs \in 1..MaxEpochs, eval_every \in 1..MaxLen,
          val_loader \in BOOLEAN, test_loader \in BOOLEAN, logger \in BOOLEAN,
          rotation \in BOOLEAN, curve \in ValCurves,
          scheduler_type \in {"ReduceLROnPlateau", "LambdaLR"} :
          \E step \in 0..(max_epochs * len + 1) :
             /\ (~val_loader => curve = "falling")
             /\ trainer = [step |-> step, epoch |-> <<step, len>>,
                           best_val_mae |-> InitialBestValMae,
                           len_train_loader |-> len, max_epochs |-> max_epochs,
                           val_loader |-> val_loader, test_loader |-> test_loader,
                           logger |-> logger, test_rotation_invariance |-> rotation,
                           scheduler_type |-> scheduler_type, is_hpo |-> FALSE,
                           curve |-> curve, resumed |-> step]
             /\ frame = [eval_every |-> eval_every, start_epoch |-> 0, epoch_int |-> 0,
                         skip_steps |-> 0, i |-> 0, batch |-> <<>>,
                         val_metrics |-> <<>>]
    /\ calls = <<>>
    /\ pc = "train"
    /\ spinner = Unset
    /\ stdout = Unset
    /\ self = Unset
    /\ random_sites = Unset
    /\ adsorbed_surfaces = Unset
    /\ reasonable_adsorbed_surfaces = Unset
    /\ b = Unset
    /\ data = Unset
    /\ sub_nodes = Unset
    /\ non_sub_nodes = Unset
    /\ not_both_are_sub = Unset
    /\ ei_not_both = Unset
    /\ assoc = Unset
    /\ supernodes_composition = Unset
    /\ sn_idxes = Unset
    /\ supernodes_pos = Unset
    /\ clean_new_edge_index = Unset
    /\ concat_reindexed_clean_edge_index = Unset
    /\ distance = Unset
    /\ previous = <<>>

NextTrain ==
    \/ TrainBegin
    \/ EpochBegin
    \/ TrainStep
    \/ EpochEnd
    \/ TrainFinish

\* one call of EnergyTrainer.train
SpecTrain == InitTrain /\ [][NextTrain]_vars

\* ---------------------------------------------------- ocdata/loader.py: Loader

\* bound: the turns of the loop of _animate that a run follows
MaxFrames == 3

\* self.steps, the eight Braille patterns by their code points
SpinnerSteps ==
    <<"U+28BF", "U+28FB", "U+28FD", "U+28FE", "U+28F7", "U+28EF", "U+28DF", "U+287F">>

\* get_terminal_size((80, 20)).columns where no terminal is attached
TerminalColumns == 80

\* the times, in hundredths of a second, that time() - self._start_time takes
ElapsedTimes == {10, 31}

\* " " * cols
RECURSIVE Spaces(_)
Spaces(cols) == IF cols = 0 THEN "" ELSE " " \o Spaces(cols - 1)

\* f"{t:.2f}" of a time of h hundredths of a second
Fixed2(h) ==
    Str(h \div 100) \o "." \o Str((h % 100) \div 10) \o Str(h % 10)

\* f"\r{self.desc} {c}"
FrameText(desc, c) == "\r" \o desc \o " " \o c

\* lines 53-58: the final line
EndText(l, elapsed) ==
    (IF l.erase THEN "\r" \o l.end ELSE l.desc \o " | " \o l.end)
    \o (IF l.timer THEN " (" \o Fixed2(elapsed) \o "s)" ELSE "")

\* lines 34-37: start()
LoaderStart ==
    /\ pc = "loader"
    /\ spinner.thread = "created"
    /\ spinner' = [spinner EXCEPT !.thread = "check", !.started = TRUE]
    /\ UNCHANGED <<pc, stdout>>
    /\ UNCHANGED <<rewiring_vars, combined_vars, trainer_vars>>

\* lines 40-42: the thread takes the next c of the cycle and reads self.done
AnimateCheck ==
    /\ pc = "loader"
    /\ spinner.thread = "check"
    /\ spinner.done \/ spinner.frames < MaxFrames
    /\ spinner' = [spinner EXCEPT !.thread = IF spinner.done THEN "ended" ELSE "print"]
    /\ UNCHANGED <<pc, stdout>>
    /\ UNCHANGED <<rewiring_vars, combined_vars, trainer_vars>>

\* line 43: the thread prints a frame
AnimatePrint ==
    /\ pc = "loader"
    /\ spinner.thread = "print"
    /\ stdout' = Append(stdout,
                    [text |-> FrameText(spinner.desc, SpinnerSteps[spinner.c]),
                     end |-> ""])
    /\ spinner' = [spinner EXCEPT !.thread = "sleep", !.frames = spinner.frames + 1]
    /\ UNCHANGED pc
    /\ UNCHANGED <<rewiring_vars, combined_vars, trainer_vars>>

\* line 44 and the next turn of the loop of line 40
AnimateSleep ==
    /\ pc = "loader"
    /\ spinner.thread = "sleep"
    /\ spinner' = [spinner EXCEPT !.thread = "check",
                                  !.c = (spinner.c % Len(SpinnerSteps)) + 1]
    /\ UNCHANGED <<pc, stdout>>
    /\ UNCHANGED <<rewiring_vars, combined_vars, trainer_vars>>

\* lines 50-58: stop() sets self.done and builds the final line
StopBegin ==
    /\ pc = "loader"
    /\ spinner.started
    /\ spinner.stop = "not called"
    /\ \E elapsed \in ElapsedTimes :
          spinner' = [spinner EXCEPT !.done = TRUE, !.stop = "blank",
                                     !.cols = TerminalColumns,
                                     !.end_text = EndText(spinner, elapsed)]
    /\ UNCHANGED <<pc, stdout>>
    /\ UNCHANGED <<rewiring_vars, combined_vars, trainer_vars>>

\* line 60: stop() blanks the line
StopBlank ==
    /\ pc = "loader"
    /\ spinner.stop = "blank"
    /\ stdout' = Append(stdout, [text |-> "\r" \o Spaces(spinner.cols), end |-> ""])
    /\ spinner' = [spinner EXCEPT !.stop = "final"]
    /\ UNCHANGED pc
    /\ UNCHANGED <<rewiring_vars, combined_vars, trainer_vars>>

\* line 61: stop() prints the final line and returns
StopFinal ==
    /\ pc = "loader"
    /\ spinner.stop = "final"
    /\ stdout' = Append(stdout, [text |-> spinner.end_text, end |-> "\n"])
    /\ spinner' = [spinner EXCEPT !.stop = "returned"]
    /\ UNCHANGED pc
    /\ UNCHANGED <<rewiring_vars, combined_vars, trainer_vars>>

\* lines 8-32: a Loader as __init__ leaves it
InitLoader ==
    /\ \E timer \in BOOLEAN, erase \in BOOLEAN :
          spinner = [desc |-> "Loading...", end |-> "Done!", timer |-> timer,
                     erase |-> erase, done |-> FALSE, started |-> FALSE,
                     thread |-> "created", c |-> 1, frames |-> 0,
                     stop |-> "not called", cols |-> 0, end_text |-> ""]
    /\ stdout = <<>>
    /\ pc = "loader"
    /\ trainer = Unset
    /\ frame = Unset
    /\ calls = Unset
    /\ self = Unset
    /\ random_sites = Unset
    /\ adsorbed_surfaces = Unset
    /\ reasonable_adsorbed_surfaces = Unset
    /\ b = Unset
    /\ data = Unset
    /\ sub_nodes = Unset
    /\ non_sub_nodes = Unset
    /\ not_both_are_sub = Unset
    /\ ei_not_both = Unset
    /\ assoc = Unset
    /\ supernodes_composition = Unset
    /\ sn_idxes = Unset
    /\ supernodes_pos = Unset
    /\ clean_new_edge_index = Unset
    /\ concat_reindexed_clean_edge_index = Unset
    /\ distance = Unset
    /\ previous = <<>>

NextLoader ==
    \/ LoaderStart
    \/ AnimateCheck
    \/ AnimatePrint
    \/ AnimateSleep
    \/ StopBegin
    \/ StopBlank
    \/ StopFinal

\* the main thread calls start() and stop() while the thread of _animate runs
SpecLoader == InitLoader /\ [][NextLoader]_vars

\* ------------------------------------------------------------- properties

\* the number of graphs of the input, and the nodes of graph i (1-based)
NumGraphs == Len(b.natoms)
NodesOf(i) == b.ptr[i]..(b.ptr[i + 1] - 1)
Elems(t) == { t[j] : j \in 1..Len(t) }
Increasing(t) == \A j \in 1..(Len(t) - 1) : t[j] < t[j + 1]
NumEdges(bb) == Len(bb.edge_index[1])
LastPtr == data.ptr[Len(data.ptr)]

\* the graph (1-based) of the input that owns the old node k
OldGraph(k) == CHOOSE i \in 1..NumGraphs : k \in NodesOf(i)

\* what the re-wiring is to make of the old node k: a sub-surface atom becomes
\* the super node of its graph, the last node of the graph's new range; any
\* other atom takes its rank among the atoms of its graph that stay
Rewired(k) ==
    LET i == OldGraph(k)
    IN  IF b.tags[k + 1] = 0 THEN data.ptr[i + 1] - 1
        ELSE data.ptr[i]
             + Cardinality({ m \in NodesOf(i) : m < k /\ b.tags[m + 1] # 0 })

\* the input edges of which at most one end is a sub-surface atom, in order
Retained ==
    LET keep == [j \in 1..NumEdges(b) |->
                    ~(b.tags[b.edge_index[1][j] + 1] = 0
                      /\ b.tags[b.edge_index[2][j] + 1] = 0)]
    IN  << MaskSelect(b.edge_index[1], keep), MaskSelect(b.edge_index[2], keep) >>

\* C1: when the block is done, the source and the target of every column of
\* data.edge_index lie in [0, data.ptr[-1]); none is the -1 of assoc.
C1_IndexValidity ==
    pc = "done" =>
        \A r \in 1..2 : \A j \in 1..NumEdges(data) :
            /\ data.edge_index[r][j] # Removed
            /\ 0 <= data.edge_index[r][j]
            /\ data.edge_index[r][j] < LastPtr

\* C2: when the block is done, every retained edge appears with a sub-surface
\* end replaced by the super node of its graph, data.ptr[i + 1] - 1, and any
\* other end by its new compacted index; on the batch of tags 0 0 1 1 2 and
\* 0 1 2 with the edges (0, 2) and (5, 6) the output edges are (3, 0), (6, 4).
C2_RewiredToSuperNode ==
    pc = "done" =>
        /\ data.edge_index =
              << [j \in 1..Len(Retained[1]) |-> Rewired(Retained[1][j])],
                 [j \in 1..Len(Retained[2]) |-> Rewired(Retained[2][j])] >>
        /\ IsScenario(b) => data.edge_index = << <<3, 6>>, <<0, 4>> >>

\* C3: once the node tensors are built, data.ptr has N + 1 entries, starts
\* at 0, increases strictly, two neighbours differ by the number of
\* non-sub-surface nodes of the graph plus 1, and data.natoms is that
\* difference.
C3_Pointer ==
    pc # "start" =>
        /\ Len(data.ptr) = NumGraphs + 1
        /\ data.ptr[1] = 0
        /\ Len(data.natoms) = NumGraphs
        /\ \A i \in 1..NumGraphs :
              /\ data.ptr[i] < data.ptr[i + 1]
              /\ data.ptr[i + 1] - data.ptr[i] = Len(non_sub_nodes[i]) + 1
              /\ data.ptr[i + 1] - data.ptr[i]
                    = Cardinality({ k \in NodesOf(i) : b.tags[k + 1] # 0 }) + 1
              /\ data.natoms[i] = data.ptr[i + 1] - data.ptr[i]

\* a batch of two graphs or more, the second with atoms that stay
C3_Witness ==
    /\ pc = "done"
    /\ NumGraphs >= 2
    /\ Len(non_sub_nodes[1]) >= 1
    /\ Len(non_sub_nodes[2]) >= 1
    /\ data.ptr[3] - data.ptr[2] = Len(non_sub_nodes[2]) + 1

\* C4: once the edges are filtered, the number of columns of ei_not_both plus
\* the sum of data.sn_edges_aggregates is the number of edges of the input,
\* and that sum is the number of input edges with two sub-surface ends.
C4_EdgeConservation ==
    pc \in {"rewired", "counted", "done", "IndexError"} =>
        /\ Len(ei_not_both[1]) + SumSeq(data.sn_edges_aggregates) = NumEdges(b)
        /\ Len(ei_not_both[2]) = Len(ei_not_both[1])
        /\ SumSeq(data.sn_edges_aggregates)
              = Cardinality({ j \in 1..NumEdges(b) :
                                /\ b.tags[b.edge_index[1][j] + 1] = 0
                                /\ b.tags[b.edge_index[2][j] + 1] = 0 })

\* a batch with an edge that is dropped and one that is kept
C4_Witness ==
    /\ pc = "rewired"
    /\ SumSeq(data.sn_edges_aggregates) >= 1
    /\ Len(ei_not_both[1]) >= 1
    /\ Len(ei_not_both[1]) + SumSeq(data.sn_edges_aggregates) = NumEdges(b)

\* C5: for every graph i, sub_nodes[i] holds tag 0 nodes and non_sub_nodes[i]
\* the others, the two are disjoint, together they are the nodes
\* [ptr[i], ptr[i + 1]) of the graph, and each is in increasing index order.
C5_Partition ==
    pc # "start" =>
        /\ Len(sub_nodes) = NumGraphs
        /\ Len(non_sub_nodes) = NumGraphs
        /\ \A i \in 1..NumGraphs :
              /\ Elems(sub_nodes[i]) \cap Elems(non_sub_nodes[i]) = {}
              /\ Elems(sub_nodes[i]) \cup Elems(non_sub_nodes[i]) = NodesOf(i)
              /\ \A k \in Elems(sub_nodes[i]) : b.tags[k + 1] = 0
              /\ \A k \in Elems(non_sub_nodes[i]) : b.tags[k + 1] # 0
              /\ Increasing(sub_nodes[i])
              /\ Increasing(non_sub_nodes[i])

\* a second graph with nodes of each side, an adsorbate atom among them
C5_Witness ==
    /\ pc = "nodes"
    /\ NumGraphs >= 2
    /\ Len(sub_nodes[2]) >= 1
    /\ Len(non_sub_nodes[2]) >= 2
    /\ \E k \in Elems(non_sub_nodes[2]) : b.tags[k + 1] = 2
    /\ Elems(sub_nodes[2]) \cup Elems(non_sub_nodes[2]) = NodesOf(2)

\* C7: when the block is done (no error stopped it), a graph without a
\* sub-surface atom carries no node whose position, relaxed position or
\* force is the mean of no atom.
C7_NoEmptyAggregate ==
    pc = "done" =>
        \A i \in 1..NumGraphs :
            (\A k \in NodesOf(i) : b.tags[k + 1] # 0) =>
                \A m \in (data.ptr[i] + 1)..data.ptr[i + 1] :
                    /\ ~IsNaN(data.pos[m])
                    /\ ~IsNaN(data.pos_relaxed[m])
                    /\ ~IsNaN(data.force[m])

\* C8: when the block is done, data.cell_offsets has one row for each column
\* of data.edge_index, and row k is the offset of the input edge that became
\* output edge k.
C8_CellOffsetsAligned ==
    pc = "done" =>
        /\ Len(data.cell_offsets) = NumEdges(data)
        /\ \A k \in 1..NumEdges(data) :
              k <= Len(data.cell_offsets) =>
                  data.cell_offsets[k] = OffsetOf(ei_not_both[1][k], ei_not_both[2][k])

\* C9: when the block is done, data.neighbors has one entry for each graph,
\* and entry i is the number of output edges whose source lies in
\* [data.ptr[i], data.ptr[i + 1]): 0 for a graph without an edge.
C9_Neighbors ==
    pc = "done" =>
        /\ Len(data.neighbors) = NumGraphs
        /\ \A i \in 1..NumGraphs :
              i <= Len(data.neighbors) =>
                  data.neighbors[i]
                      = Cardinality({ j \in 1..NumEdges(data) :
                                        /\ data.ptr[i] <= data.edge_index[1][j]
                                        /\ data.edge_index[1][j] < data.ptr[i + 1] })

\* C10: when the block is done, data.batch has data.ptr[-1] entries, entry k
\* is i exactly when data.ptr[i] <= k < data.ptr[i + 1], so that it never
\* decreases and takes every value 0 .. N - 1.
C10_BatchFromPtr ==
    pc = "done" =>
        /\ Len(data.batch) = LastPtr
        /\ \A k \in 0..(LastPtr - 1) : \A i \in 0..(NumGraphs - 1) :
              data.batch[k + 1] = i <=> (data.ptr[i + 1] <= k /\ k < data.ptr[i + 2])
        /\ \A k \in 1..(Len(data.batch) - 1) : data.batch[k] <= data.batch[k + 1]
        /\ Elems(data.batch) = 0..(NumGraphs - 1)

\* three graphs, of which one has kept more than its super node
C10_Witness ==
    /\ pc = "done"
    /\ NumGraphs >= 3
    /\ Len(data.batch) = LastPtr
    /\ LastPtr > NumGraphs
    /\ data.batch[LastPtr] = NumGraphs - 1

\* the sum of coordinate c of the rows of t at the (0-based) indices S
RECURSIVE SumOver(_, _, _)
SumOver(S, t, c) ==
    IF S = {} THEN 0
    ELSE LET k == CHOOSE x \in S : TRUE
         IN  t[k + 1].n[c] + SumOver(S \ {k}, t, c)

\* v is the mean of the rows of t (all of denominator 1) at the indices S
IsMeanOf(v, S, t) ==
    /\ v.d > 0
    /\ \A c \in 1..3 : v.n[c] * Cardinality(S) = SumOver(S, t, c) * v.d

\* the sub-surface atoms of graph i, from the tags of the input
TagZero(i) == { k \in NodesOf(i) : b.tags[k + 1] = 0 }

C12_InputUnchanged == [][b' = b]_vars

\* both blocks have run on a batch of two graphs with edges that both blocks
\* keep, and the batch still is as the loader packed it
C12_Witness ==
    /\ pc = "both done"
    /\ NumGraphs >= 2
    /\ NumEdges(data) >= 1
    /\ Len(ei_not_both[1]) >= 1
    /\ Len(concat_reindexed_clean_edge_index[1]) >= 1
    /\ b.ptr = PtrOf(b.natoms)
    /\ data.ptr = b.ptr
    /\ Len(b.tags) = b.ptr[Len(b.ptr)]

C14_AdsorbateTagged ==
    (self.cls = "CombinedRandomly" /\ pc = "placed") =>
        \A j \in 1..Len(adsorbed_surfaces) :
            LET adslab == adsorbed_surfaces[j][2]
                n == Len(self.surface.tags)
            IN  /\ SubSeq(adslab.tags, 1, n) = self.surface.tags
                /\ \A k \in (n + 1)..Len(adslab.tags) : adslab.tags[k] = 2
                /\ AdsorbateIndices(adslab) # <<>>

\* C15: generate_random_sites returns exactly num_sites sites.
C15_ExactlyNumSites ==
    pc = "sites" => Len(random_sites) = self.random_sites

\* C14, witness of the divergence: a placement made without rotation whose
\* adsorbate atoms kept tag 0, so that no adsorbate atom is found
C14_Divergence ==
    /\ pc = "placed"
    /\ self.cls = "CombinedRandomly"
    /\ ~self.rotate_adsorbate
    /\ Len(adsorbed_surfaces) >= 1
    /\ AdsorbateIndices(adsorbed_surfaces[1][2]) = <<>>

\* C16: once the object is constructed, adsorbed_surface_atoms,
\* adsorbed_surface_sampling_strs, constrained_adsorbed_surfaces and all_sites
\* have length num_configs and position ind of each is the same placement;
\* with enumerate_all_configs, num_configs is the number of accepted placements
\* and the string at ind is 'ind/total'; without, num_configs is 1 and the
\* string is '<chosen index>/<total accepted>'.
C16_ListsAligned ==
    pc = "constructed" =>
        LET total == Len(reasonable_adsorbed_surfaces)
            placement(ind) == AtomsOf(self.adsorbed_surface_atoms[ind])
        IN  /\ Len(self.adsorbed_surface_atoms) = self.num_configs
            /\ Len(self.adsorbed_surface_sampling_strs) = self.num_configs
            /\ Len(self.constrained_adsorbed_surfaces) = self.num_configs
            /\ Len(self.all_sites) = self.num_configs
            /\ \A ind \in 1..self.num_configs :
                  /\ self.constrained_adsorbed_surfaces[ind].at = placement(ind).at
                  /\ self.constrained_adsorbed_surfaces[ind].tags = placement(ind).tags
                  /\ self.all_sites[ind] = placement(ind).at
            /\ IF self.enumerate_all_configs
               THEN /\ self.num_configs = total
                    /\ self.adsorbed_surface_atoms = reasonable_adsorbed_surfaces
                    /\ \A ind \in 1..total :
                          self.adsorbed_surface_sampling_strs[ind]
                              = Str(ind - 1) \o "/" \o Str(total)
               ELSE /\ self.num_configs = 1
                    /\ \E index \in 0..(total - 1) :
                          /\ self.adsorbed_surface_atoms[1]
                                 = reasonable_adsorbed_surfaces[index + 1]
                          /\ self.adsorbed_surface_sampling_strs[1]
                                 = Str(index) \o "/" \o Str(total)

C16_Witness ==
    /\ pc = "constructed"
    /\ self.cls = "CombinedRandomly"
    /\ self.enumerate_all_configs
    /\ Len(adsorbed_surfaces) = 3
    /\ self.num_configs = 2
    /\ self.adsorbed_surface_sampling_strs = <<"0/2", "1/2">>
    /\ self.all_sites = <<adsorbed_surfaces[1][1], adsorbed_surfaces[3][1]>>

\* --------------------------------------- properties of the edge filter, go on

\* C18: an input edge is discarded iff its source and its target are both
\* tag 0 atoms, whatever the other edges and the order of the columns of
\* edge_index: ei_not_both is the columns with at most one tag 0 end, in order.
C18_DiscardIffBothSub ==
    pc \in {"rewired", "counted", "done", "IndexError"} => ei_not_both = Retained

\* C18, the divergence: an edge between two tag 0 atoms is kept
C18_Divergence ==
    /\ pc = "rewired"
    /\ \E j \in 1..Len(ei_not_both[1]) :
          /\ b.tags[ei_not_both[1][j] + 1] = 0
          /\ b.tags[ei_not_both[2][j] + 1] = 0

\* C19: for every graph i the output edge_index holds a self-loop (sn_i, sn_i)
\* of the graph's super node, after the other edges of the graph and with a
\* zero cell offset, so that every graph has a column in data.edge_index.
C19_SuperNodeSelfLoop ==
    pc \in {"rewired", "counted", "done", "IndexError"} =>
        \A i \in 1..NumGraphs :
            \E j \in 1..NumEdges(data) :
                /\ data.edge_index[1][j] = data.ptr[i + 1] - 1
                /\ data.edge_index[2][j] = data.ptr[i + 1] - 1
                /\ j <= Len(data.cell_offsets)
                /\ data.cell_offsets[j] = <<0, 0, 0>>
                /\ \A m \in (j + 1)..NumEdges(data) :
                      data.edge_index[1][m] >= data.ptr[i + 1]

\* the old nodes of graph i that are not sub-surface atoms
NonSubOf(i) == { k \in NodesOf(i) : b.tags[k + 1] # 0 }

\* C20: for every graph i the new nodes [data.ptr[i], data.ptr[i+1]) are the
\* atoms of the graph that are not sub-surface, in their order and each with
\* its atomic number, tag, fixed flag, position, relaxed position and force,
\* then the super node at data.ptr[i+1]-1; pos, pos_relaxed, force,
\* atomic_numbers, tags and fixed have length data.ptr[-1].
C20_NodeLayout ==
    pc # "start" =>
        /\ Len(data.pos) = LastPtr
        /\ Len(data.pos_relaxed) = LastPtr
        /\ Len(data.force) = LastPtr
        /\ Len(data.atomic_numbers) = LastPtr
        /\ Len(data.tags) = LastPtr
        /\ Len(data.fixed) = LastPtr
        /\ \A i \in 1..NumGraphs :
              /\ data.ptr[i + 1] - data.ptr[i] = Cardinality(NonSubOf(i)) + 1
              /\ data.atomic_numbers[data.ptr[i + 1]] = 84
              /\ \A k \in NonSubOf(i) :
                    LET new == data.ptr[i] + Cardinality({ m \in NonSubOf(i) : m < k }) + 1
                    IN  /\ data.atomic_numbers[new] = b.atomic_numbers[k + 1]
                        /\ data.tags[new] = b.tags[k + 1]
                        /\ data.fixed[new] = b.fixed[k + 1]
                        /\ data.pos[new] = b.pos[k + 1]
                        /\ data.pos_relaxed[new] = b.pos_relaxed[k + 1]
                        /\ data.force[new] = b.force[k + 1]

\* a second graph with two atoms that stay, after a first graph that lost an
\* atom to its super node
C20_Witness ==
    /\ pc = "nodes"
    /\ NumGraphs >= 2
    /\ Cardinality(NonSubOf(1)) < Cardinality(NodesOf(1))
    /\ Cardinality(NonSubOf(2)) >= 2

\* ------------------------------------------------ properties of the re-map

\* C21: assoc sends every old node o of graph i that is not a sub-surface atom
\* to the new index n where the node arrays hold that atom
\* (data.ptr[i] <= n < data.ptr[i+1]-1, same tag, same atomic number), no two
\* of them to the same index, and every sub-surface atom to -1.
C21_AssocRefines ==
    pc \in {"rewired", "counted", "done", "IndexError"} =>
        /\ \A i \in 1..NumGraphs : \A o \in NodesOf(i) :
              IF b.tags[o + 1] = 0
              THEN assoc[o + 1] = 0 - 1
              ELSE LET n == assoc[o + 1]
                   IN  /\ data.ptr[i] <= n
                       /\ n < data.ptr[i + 1] - 1
                       /\ data.tags[n + 1] = b.tags[o + 1]
                       /\ data.atomic_numbers[n + 1] = b.atomic_numbers[o + 1]
                       /\ data.pos[n + 1] = b.pos[o + 1]
        /\ \A o1, o2 \in 0..(Len(b.tags) - 1) :
              (b.tags[o1 + 1] # 0 /\ b.tags[o2 + 1] # 0 /\ o1 # o2)
                  => assoc[o1 + 1] # assoc[o2 + 1]

\* two graphs, atoms kept in both, one moved to a new index
C21_Witness ==
    /\ pc = "rewired"
    /\ NumGraphs >= 2
    /\ \A i \in 1..2 : NonSubOf(i) # {}
    /\ \E o \in 0..(Len(b.tags) - 1) : assoc[o + 1] # 0 - 1 /\ assoc[o + 1] # o
    /\ \E o \in 0..(Len(b.tags) - 1) : assoc[o + 1] = 0 - 1

\* ------------------------------- properties of the several super node block

\* the tag 0 atoms of graph i
SubOf(i) == { k \in NodesOf(i) : b.tags[k + 1] = 0 }

\* the atomic numbers of the tag 0 atoms of graph i
SubTypesOf(i) == { b.atomic_numbers[k + 1] : k \in SubOf(i) }

\* the super node that stands for the tag 0 atom k of graph i: the one of its
\* atomic number, the types counted by increasing atomic number from
\* b.ptr[i+1] on; any other node stands for itself
SuperNodeOf(i, k) ==
    IF k \in SubOf(i)
    THEN b.ptr[i + 1]
         + Cardinality({ an \in SubTypesOf(i) : an < b.atomic_numbers[k + 1] })
    ELSE k

\* the input edges of graph i, as pairs
InputEdgesOf(i) ==
    { <<b.edge_index[1][j], b.edge_index[2][j]>> :
        j \in { m \in 1..NumEdges(b) : b.edge_index[1][m] \in NodesOf(i) } }

\* the columns of an edge index, as pairs
ColumnsOf(ei) == { <<ei[1][j], ei[2][j]>> : j \in 1..Len(ei[1]) }

\* C22: after substitution and cleaning the edges of graph i name no tag 0
\* atom of the graph (the partitions by atomic number are disjoint and cover
\* sub_nodes[i], and every end in partition j has become that partition's
\* super node), none has source = target, none comes twice.
C22_CleanEdges ==
    pc \in {"cleaned", "several done"} =>
        \A i \in 1..NumGraphs :
            LET ei == clean_new_edge_index[i]
                sc == supernodes_composition[i]
            IN  /\ \A j \in 1..Len(ei[1]) :
                      /\ ei[1][j] \notin SubOf(i)
                      /\ ei[2][j] \notin SubOf(i)
                      /\ ei[1][j] # ei[2][j]
                      /\ \A m \in 1..Len(ei[1]) :
                            (ei[1][m] = ei[1][j] /\ ei[2][m] = ei[2][j]) => m = j
                /\ UNION { Elems(sc[j]) : j \in 1..Len(sc) } = SubOf(i)
                /\ \A j, m \in 1..Len(sc) :
                      j # m => Elems(sc[j]) \cap Elems(sc[m]) = {}
                /\ ColumnsOf(ei)
                      = { e \in { <<SuperNodeOf(i, p[1]), SuperNodeOf(i, p[2])>> :
                                    p \in InputEdgesOf(i) } : e[1] # e[2] }

\* a graph with two edges from distinct tag 0 atoms that the substitution makes
\* one edge from their super node
C22_Witness ==
    /\ pc = "cleaned"
    /\ \E i \in 1..NumGraphs :
          /\ Cardinality(InputEdgesOf(i)) = 2
          /\ Len(clean_new_edge_index[i][1]) = 1
          /\ \A p \in InputEdgesOf(i) : p[1] \in SubOf(i) /\ p[2] \notin SubOf(i)

\* C23: every input edge between two tag 0 atoms is discarded: no edge of
\* graph i joins two super nodes of the graph, those of two atomic numbers
\* included.
C23_NoSuperNodePair ==
    pc \in {"cleaned", "several done"} =>
        \A i \in 1..NumGraphs :
            LET ei == clean_new_edge_index[i]
            IN  \A j \in 1..Len(ei[1]) :
                    ~(ei[1][j] >= b.ptr[i + 1] /\ ei[2][j] >= b.ptr[i + 1])

\* the number of new nodes of graph i: the atoms that stay and a super node per
\* atomic number of its tag 0 atoms
NewCountOf(i) == Cardinality(NonSubOf(i)) + Cardinality(SubTypesOf(i))

\* where the new indices of graph i start: after those of the graphs before
RECURSIVE BlockStart(_)
BlockStart(i) == IF i = 1 THEN 0 ELSE BlockStart(i - 1) + NewCountOf(i - 1)

\* the new index of the end e of a cleaned edge of graph i: an atom that stays
\* takes its rank among those of the graph, a super node comes after them
NewIndexOf(i, e) ==
    IF e < b.ptr[i + 1]
    THEN BlockStart(i) + Cardinality({ m \in NonSubOf(i) : m < e })
    ELSE BlockStart(i) + Cardinality(NonSubOf(i)) + (e - b.ptr[i + 1])

\* the cleaned edges of all graphs, one after the other, as <<graph, src, tgt>>
RECURSIVE CleanedFrom(_)
CleanedFrom(i) ==
    IF i > NumGraphs THEN <<>>
    ELSE [j \in 1..Len(clean_new_edge_index[i][1]) |->
             <<i, clean_new_edge_index[i][1][j], clean_new_edge_index[i][2][j]>>]
         \o CleanedFrom(i + 1)

\* C24: the re-indexing gives graph i the new indices
\* [start_i, start_i + |non_sub_nodes[i]| + num_supernodes[i]), start_i where
\* graph i-1 ends and 0 for graph 0, the atoms that stay first and in order,
\* the super nodes last; every end of concat_reindexed_clean_edge_index is
\* thus not -1 and lies below the number of new nodes.
C24_ContiguousBlocks ==
    pc = "several done" =>
        LET cleaned == CleanedFrom(1)
            total == BlockStart(NumGraphs + 1)
            ei == concat_reindexed_clean_edge_index
        IN  /\ Len(ei[1]) = Len(cleaned)
            /\ Len(ei[2]) = Len(cleaned)
            /\ \A j \in 1..Len(cleaned) :
                  /\ ei[1][j] = NewIndexOf(cleaned[j][1], cleaned[j][2])
                  /\ ei[2][j] = NewIndexOf(cleaned[j][1], cleaned[j][3])
                  /\ ei[1][j] # 0 - 1 /\ ei[2][j] # 0 - 1
                  /\ 0 <= ei[1][j] /\ ei[1][j] < total
                  /\ 0 <= ei[2][j] /\ ei[2][j] < total

\* a second graph with an edge between an atom that stays and a super node,
\* after a first graph that lost atoms
C24_Witness ==
    /\ pc = "several done"
    /\ NumGraphs >= 2
    /\ Cardinality(SubOf(1)) >= 1
    /\ Len(clean_new_edge_index[2][1]) >= 1
    /\ \E j \in 1..Len(clean_new_edge_index[2][1]) :
          clean_new_edge_index[2][1][j] >= b.ptr[3] \/ clean_new_edge_index[2][2][j] >= b.ptr[3]

\* the position of the end e of a cleaned edge of graph i in the new numbering:
\* that of the atom when it stays, else that of the first tag 0 atom of the
\* super node's atomic number (supernodes_pos)
NewPosOf(i, e) ==
    IF e < b.ptr[i + 1] THEN b.pos[e + 1]
    ELSE LET members ==
                 { k \in SubOf(i) :
                     Cardinality({ an \in SubTypesOf(i) : an < b.atomic_numbers[k + 1] })
                         = e - b.ptr[i + 1] }
             first == CHOOSE k \in members : \A m \in members : k <= m
         IN  b.pos[first + 1]

\* C25: the distance of every output edge is the one between the positions its
\* two ends have in the new numbering, a super node being where the first atom
\* of its partition is; it is not looked up in the positions of the old
\* numbering.
C25_DistanceOfNewPositions ==
    pc = "several done" =>
        LET cleaned == CleanedFrom(1)
        IN  /\ Len(distance) = Len(cleaned)
            /\ \A j \in 1..Len(cleaned) :
                  distance[j] = SqDist(NewPosOf(cleaned[j][1], cleaned[j][2]),
                                       NewPosOf(cleaned[j][1], cleaned[j][3]))

\* --------------------------------------------- properties of the trainer

\* the last place of call c in the calls, 0 when it was not made
LastCall(c) ==
    IF \E j \in 1..Len(calls) : calls[j] = c
    THEN CHOOSE j \in 1..Len(calls) :
             calls[j] = c /\ \A m \in (j + 1)..Len(calls) : calls[m] # c
    ELSE 0

\* C26: when predict has returned, with per_image True or False, every
\* ema.store() / ema.copy_to() made at entry has been followed by
\* ema.restore(): the parameters of the model are those of before the call.
C26_EmaRestored ==
    pc = "predict returned" =>
        /\ LastCall("ema.store") < LastCall("ema.restore") \/ LastCall("ema.store") = 0
        /\ LastCall("ema.copy_to") < LastCall("ema.restore") \/ LastCall("ema.copy_to") = 0


\* the states of a call of train
TrainPcs ==
    {"train", "epoch loop", "step loop", "train returned",
     "UnboundLocalError: val_metrics", "UnboundLocalError: batch",
     "AttributeError"}

\* the places in calls of the calls of one name
CallsOf(name) == {j \in 1..Len(calls) : calls[j].call = name}

\* the places in calls where the checkpoint of a step is saved
CheckpointsOf(step) ==
    {j \in CallsOf("save") :
        /\ calls[j].step = step
        /\ calls[j].checkpoint_file # "best_checkpoint.pt"}

C29_SchedulerSteps ==
    pc \in TrainPcs =>
        IF trainer.scheduler_type = "ReduceLROnPlateau"
        THEN /\ pc # "UnboundLocalError: val_metrics"
             /\ \A j \in CallsOf("scheduler.step") :
                   /\ calls[j].step % frame.eval_every = 0
                   /\ \E v \in CallsOf("validate") :
                         /\ v < j
                         /\ calls[v].step = calls[j].step
                         /\ calls[v].metric = calls[j].metrics
        ELSE /\ \A t \in CallsOf("train step") :
                   Cardinality({j \in CallsOf("scheduler.step") :
                                   calls[j].step = calls[t].step /\ t < j}) = 1
             /\ \A j \in CallsOf("scheduler.step") :
                   \E t \in CallsOf("train step") : calls[t].step = calls[j].step

\* C30: a training resumed at a step >= max_epochs * len(train_loader) runs
\* no iteration, raises nothing and returns after it has closed the train
\* dataset and the val and test datasets it has, with and without a logger
C30_ZeroIterationsReturn ==
    (pc \in TrainPcs
        /\ trainer.resumed >= trainer.max_epochs * trainer.len_train_loader) =>
        /\ CallsOf("train step") = {}
        /\ pc \notin {"UnboundLocalError: val_metrics", "UnboundLocalError: batch",
                      "AttributeError"}
        /\ pc = "train returned" =>
              /\ \E j \in CallsOf("close_db") : calls[j].dataset = "train"
              /\ trainer.val_loader =>
                    \E j \in CallsOf("close_db") : calls[j].dataset = "val"
              /\ trainer.test_loader =>
                    \E j \in CallsOf("close_db") : calls[j].dataset = "test"


\* the frames that _animate can print
FrameTexts == {FrameText(spinner.desc, SpinnerSteps[k]) : k \in 1..Len(SpinnerSteps)}

\* C28: in every interleaving of stop() with _animate(), after stop() has
\* printed its final line no frame of the spinner is written
C28_NoFrameAfterFinal ==
    pc = "loader" =>
        \A j \in 1..Len(stdout) :
            (stdout[j].end = "\n" /\ stdout[j].text = spinner.end_text) =>
                \A k \in (j + 1)..Len(stdout) : stdout[k].text \notin FrameTexts

====
